---- MODULE Spec2Model ----
(***************************************************************************)
(* Delegation-tree engine of the KILT sdk (DelegationNode): the ancestry   *)
(* walk, the subtree count and the bounded cascade requests, run against a *)
(* ledger that other actors change while a call is suspended on a query.   *)
(***************************************************************************)
EXTENDS Integers, Sequences, FiniteSets, TLC

\* ------------------------------------------------------------------ bounds
MaxNodes == 3
NumAccounts == 2
NumSignatures == 1
NumCTypes == 2

NodeIds == 1..MaxNodes
Accounts == 1..NumAccounts
\* 0 stands for an absent signature (store(signature?))
Signatures == 0..NumSignatures
CTypeHashes == 1..NumCTypes
\* Permission.ATTEST, Permission.DELEGATE
Permissions == {"ATTEST", "DELEGATE"}

\* ------------------------------------------------------------- ledger data
\* IDelegationNode as the ledger reports it; parentId = 0 is an absent parentId.
\* `present = FALSE` is the null of query(id).
NullNode ==
    [present |-> FALSE, id |-> 0, hierarchyId |-> 0, parentId |-> 0,
     childrenIds |-> <<>>, account |-> 0, permissions |-> {},
     revoked |-> FALSE]

\* IDelegationHierarchyDetails; `present = FALSE` is the null of queryDetails
\* and the unset hierarchyDetails field.
NoDetails == [present |-> FALSE, id |-> 0, cTypeHash |-> 0]

VARIABLES
    chain,      \* the ledger: node id -> record, NullNode when there is none
    nextId,     \* next fresh node id (UUID.generate)
    self,       \* the DelegationNode object the caller holds
    op,         \* the engine operation called last ("none" before any)
    did,        \* its did argument
    sig,        \* its signature argument
    pc,         \* "idle", or the kind of query the running call is suspended on
    walk,       \* findAncestorOwnedBy: the object whose getParent is pending, and the depth
    anc,        \* the result of the call's findAncestorOwnedBy
    tasks,      \* subtreeNodeCount invocations of the running call, by node id
    result,     \* what the call returned or threw
    built,      \* requests built by the submission collaborator during the call
    queries,    \* ledger queries issued by the call, in issue order
    stable,     \* no ledger change since the call started
    twin,       \* a second call, run side by side with the first (SpecTwin)
    hierarchies,      \* the ledger: hierarchy id -> details, NoDetails when none
    hierarchyDetails, \* the private hierarchyDetails field of the object held
    born,       \* how the caller got the object, and what it was then
    before,     \* the object's caches when the running call started
    seen        \* what the verify calls on the object have returned so far

vars == <<chain, nextId, self, op, did, sig, pc, walk, anc, tasks, result,
          built, queries, stable, twin, hierarchies, hierarchyDetails, born,
          before, seen>>

ledgerVars == <<chain, nextId, hierarchies>>

\* What the caller holds besides the call: the object's private cache and
\* the records kept about it.
objectVars == <<hierarchyDetails, born, before, seen>>

\* The readonly fields of a node object.
Identity(n) ==
    [id |-> n.id, hierarchyId |-> n.hierarchyId, parentId |-> n.parentId,
     account |-> n.account, permissions |-> n.permissions,
     revoked |-> n.revoked]

\* The record kept when the caller gets an object: which way it was made
\* ("query", "newRoot", "newNode", "constructor"), its readonly fields then,
\* the cTypeHash handed to newRoot, and the fields the caller gave (0 for one
\* not given).
Born(by, n, c) ==
    [by |-> by, node |-> Identity(n), cTypeHash |-> c,
     given |-> Identity(NullNode)]
NotBorn == Born("none", NullNode, 0)

\* What the calls on the object have shown so far: the lifecycle observed by
\* verify, the details of the first getHierarchyDetails that succeeded,
\* whether a getHierarchyDetails has failed, the first hash generateHash
\* returned, and how far the calls have come (hashed: 1 generateHash was
\* called, 2 then another method, 3 then generateHash again), and whether
\* the object's store request has been executed. verify is "none" as long
\* as no verify returned true, "active" when the last one did, "ended" when
\* one did and a later one returned false, "again" when one returned true
\* after that.
\* rejected is the query of the running call that the ledger client failed,
\* NoQuery when none did. asked tells how many hierarchy queries the calls on
\* the object have issued ("none", "once", "more"), overlapped whether a
\* getHierarchyDetails call started while another one was suspended.
NoQuery == [fn |-> "none", id |-> 0]
NothingSeen ==
    [verify |-> "none", details |-> NoDetails, failed |-> FALSE,
     hash |-> <<>>, hashed |-> 0, stored |-> FALSE, rejected |-> NoQuery,
     asked |-> "none", overlapped |-> FALSE]

\* The caches of the object when a call starts.
Caches(n, d) == [childrenIds |-> n.childrenIds, hierarchyDetails |-> d]
NoCaches == Caches(NullNode, NoDetails)

\* ------------------------------------------------------ sequence helpers
Range(s) == {s[k] : k \in 1..Len(s)}

RECURSIVE SumSeq(_)
SumSeq(s) == IF s = <<>> THEN 0 ELSE Head(s) + SumSeq(Tail(s))

\* ------------------------------------------------------- results, requests
NoRequest ==
    [call |-> "none", id |-> 0, steps |-> 0, count |-> 0, signature |-> 0,
     node |-> NullNode]

\* What a call returned or threw: a number (value), a request, a node object
\* or null (node), node objects (nodes), hierarchy details (details), a
\* boolean (flag) or a hash (hash), by kind.
NoResult ==
    [kind |-> "none", error |-> "none", value |-> 0, request |-> NoRequest,
     node |-> NullNode, nodes |-> <<>>, details |-> NoDetails, flag |-> FALSE,
     hash |-> <<>>]

Thrown(e) == [NoResult EXCEPT !.kind = "error", !.error = e]
Returned(v) == [NoResult EXCEPT !.kind = "value", !.value = v]
Built(r) == [NoResult EXCEPT !.kind = "request", !.request = r]
ReturnedNode(n) == [NoResult EXCEPT !.kind = "node", !.node = n]
ReturnedNodes(ns) == [NoResult EXCEPT !.kind = "nodes", !.nodes = ns]
ReturnedDetails(d) == [NoResult EXCEPT !.kind = "details", !.details = d]
ReturnedFlag(b) == [NoResult EXCEPT !.kind = "flag", !.flag = b]
ReturnedHash(h) == [NoResult EXCEPT !.kind = "hash", !.hash = h]

\* DelegationNode.chain revoke(delegationId, maxDepth, maxRevocations)
revokeTx(i, steps, childCount) ==
    [NoRequest EXCEPT !.call = "revoke", !.id = i, !.steps = steps,
                      !.count = childCount]

\* DelegationNode.chain remove(delegationId, maxRevocations)
removeTx(i, childCount) ==
    [NoRequest EXCEPT !.call = "remove", !.id = i, !.count = childCount]

\* DelegationNode.chain reclaimDeposit(delegationId, maxRemovals)
reclaimDepositTx(i, childCount) ==
    [NoRequest EXCEPT !.call = "reclaimDeposit", !.id = i, !.count = childCount]

\* DelegationNode.chain storeAsRoot(delegation)
storeAsRoot(n) == [NoRequest EXCEPT !.call = "storeAsRoot", !.id = n.id, !.node = n]

\* DelegationNode.chain storeAsDelegation(delegation, signature)
storeAsDelegation(n, s) ==
    [NoRequest EXCEPT !.call = "storeAsDelegation", !.id = n.id, !.node = n,
                      !.signature = s]

\* An entry of the query log: which method issued query(id).
Query(fn, i) == [fn |-> fn, id |-> i]

\* DelegationNode.chain query(delegationId) on ledger c: the record, or null.
query(c, i) == c[i]

\* ------------------------------------------------------- a call's state
\* Everything one engine call holds: the receiver object, the arguments, where
\* it is suspended, and what it has issued and produced so far.
NoWalk == [cur |-> NullNode, depth |-> 0]
NoAncestor == [steps |-> 0, node |-> NullNode]
NoTask == [st |-> "none", kids |-> <<>>, pend |-> {}, node |-> NullNode]
NoTasks == [i \in NodeIds |-> NoTask]

\* A call of operation o on object n with arguments d, s, before its first step.
Call(n, o, d, s) ==
    [self |-> n, op |-> o, did |-> d, sig |-> s, pc |-> "idle",
     walk |-> NoWalk, anc |-> NoAncestor, tasks |-> NoTasks,
     result |-> NoResult, built |-> 0, queries |-> <<>>]

\* The call returns or throws r.
Finish(e, r) == [e EXCEPT !.pc = "idle", !.result = r]

\* Mutant: the engine issues the rejected query q once more and goes on
\* waiting.
queryFailed_Retried(e, q) == [e EXCEPT !.queries = Append(@, q)]

\* The pending query q rejects with QueryFailed: there is no catch around an
\* await, so every method on the way up rejects with it.
queryFailed(e, q) == Finish(e, Thrown("QueryFailed"))

\* What a step f of an invocation that still runs after the call e has
\* rejected leaves: its queries and its state, not the settled result.
Background(e, f) == [f EXCEPT !.pc = e.pc, !.result = e.result]

\* The caller drops the promise of the suspended call: the continuation
\* never runs, and the object stays as the call has left it so far.
Abandoned(e) == Finish(e, [NoResult EXCEPT !.kind = "abandoned"])

\* ------------------------------------------------------ subtreeNodeCount
\* tasks[i].st of the invocation on node i: "refresh" (getChildren awaits
\* query(this.id)), "resolve" (chain getChildren awaits the child queries in
\* pend), "count" (awaits the children's counts), "leaf" (returned 0);
\* "resolved" is a child object on which subtreeNodeCount is not yet invoked.
\* kids is the object's childrenIdentifiers, node the object chain
\* getChildren made of a child's record.

RECURSIVE Settled(_, _)
\* The subtreeNodeCount invocation on node i has returned.
Settled(t, i) ==
    \/ t[i].st = "leaf"
    \/ /\ t[i].st = "count"
       /\ \A k \in Range(t[i].kids) : Settled(t, k)

\* Mutant: only the direct children are counted.
childCount_Direct(t, i) == Len(t[i].kids)

RECURSIVE childCount_NoLength(_, _)
\* Mutant: children.length is left out of the sum.
childCount_NoLength(t, i) ==
    IF Len(t[i].kids) = 0 THEN 0
    ELSE SumSeq([k \in 1..Len(t[i].kids) |->
                    childCount_NoLength(t, t[i].kids[k])])

RECURSIVE childCount(_, _)
\* What the invocation on node i returns: 0 without children, else
\* children.length plus the sum of the children's counts.
childCount(t, i) ==
    IF Len(t[i].kids) = 0 THEN 0
    ELSE Len(t[i].kids) +
         SumSeq([k \in 1..Len(t[i].kids) |-> childCount(t, t[i].kids[k])])

\* Mutant: subtreeNodeCount is invoked twice on every child.
RefreshQueries_Twice(kids) ==
    [k \in 1..(2 * Len(kids)) |->
        Query("getChildren", kids[((k - 1) % Len(kids)) + 1])]

\* The queries that invoking subtreeNodeCount on each of kids issues, in order.
RefreshQueries(kids) == [k \in 1..Len(kids) |-> Query("getChildren", kids[k])]

\* The queries of DelegationNode.chain getChildren, one per child id, in order.
ChildQueries(kids) == [k \in 1..Len(kids) |-> Query("chain.getChildren", kids[k])]

\* Mutant: revoke passes childCount and steps in the wrong order.
Emit_SwappedBounds(e, count) ==
    IF e.op = "revoke"
    THEN [Finish(e, Built(revokeTx(e.self.id, count, e.anc.steps)))
            EXCEPT !.built = @ + 1]
    ELSE IF e.op = "remove"
    THEN [Finish(e, Built(removeTx(e.self.id, count))) EXCEPT !.built = @ + 1]
    ELSE IF e.op = "reclaimDeposit"
    THEN [Finish(e, Built(reclaimDepositTx(e.self.id, count)))
            EXCEPT !.built = @ + 1]
    ELSE Finish(e, Returned(count))

\* Mutant: the cascade is applied to the local object as well.
Emit_MarksRevoked(e, count) ==
    IF e.op = "revoke"
    THEN [Finish(e, Built(revokeTx(e.self.id, e.anc.steps, count)))
            EXCEPT !.built = @ + 1, !.self.revoked = TRUE]
    ELSE IF e.op = "remove"
    THEN [Finish(e, Built(removeTx(e.self.id, count)))
            EXCEPT !.built = @ + 1, !.self.revoked = TRUE]
    ELSE IF e.op = "reclaimDeposit"
    THEN [Finish(e, Built(reclaimDepositTx(e.self.id, count)))
            EXCEPT !.built = @ + 1, !.self.revoked = TRUE]
    ELSE Finish(e, Returned(count))

\* The tail of revoke / remove / reclaimDeposit / subtreeNodeCount once the
\* count of the receiver is in: the request built from it, or the count.
Emit(e, count) ==
    IF e.op = "revoke"
    THEN [Finish(e, Built(revokeTx(e.self.id, e.anc.steps, count)))
            EXCEPT !.built = @ + 1]
    ELSE IF e.op = "remove"
    THEN [Finish(e, Built(removeTx(e.self.id, count))) EXCEPT !.built = @ + 1]
    ELSE IF e.op = "reclaimDeposit"
    THEN [Finish(e, Built(reclaimDepositTx(e.self.id, count)))
            EXCEPT !.built = @ + 1]
    ELSE Finish(e, Returned(count))

\* The objects chain getChildren returns for node i, in the order of
\* childrenIds.
children(t, i) == [k \in 1..Len(t[i].kids) |-> t[t[i].kids[k]].node]

\* After a response was handled: a getChildren call returns when there is no
\* child to resolve; any other call goes on to its tail when the receiver's
\* count is settled; the call stays suspended on its open queries otherwise.
Resume(e) ==
    IF e.op = "getChildren"
    THEN IF e.tasks[e.self.id].st = "leaf"
         THEN Finish(e, ReturnedNodes(<<>>))
         ELSE e
    ELSE IF Settled(e.tasks, e.self.id)
    THEN Emit(e, childCount(e.tasks, e.self.id))
    ELSE e

\* Mutant: the bound is the length of the cached childrenIds, without traversal.
BeginCount_Cached(e) == Emit(e, Len(e.self.childrenIds))

\* this.subtreeNodeCount() on the receiver: getChildren issues query(this.id).
BeginCount(e) ==
    [e EXCEPT !.pc = "count",
              !.tasks = [NoTasks EXCEPT ![e.self.id] =
                            [NoTask EXCEPT !.st = "refresh",
                                           !.kids = e.self.childrenIds]],
              !.queries = Append(@, Query("getChildren", e.self.id))]

\* Mutant: without a record the cached childrenIdentifiers are dropped.
getChildren_ClearsOnNull(e, c, i) ==
    LET refreshedNodeDetails == query(c, i)
        kids == IF refreshedNodeDetails.present
                THEN refreshedNodeDetails.childrenIds
                ELSE <<>>
    IN  Resume([e EXCEPT
            !.self = IF i = e.self.id THEN [@ EXCEPT !.childrenIds = kids] ELSE @,
            !.tasks[i] = IF kids = <<>>
                         THEN [@ EXCEPT !.st = "leaf", !.kids = kids,
                                        !.pend = {},
                                        !.node.childrenIds = kids]
                         ELSE [@ EXCEPT !.st = "resolve", !.kids = kids,
                                        !.pend = Range(kids),
                                        !.node.childrenIds = kids],
            !.queries = @ \o ChildQueries(kids)])

\* Mutant: the children are resolved from the cached childrenIdentifiers.
getChildren_NoRefresh(e, c, i) ==
    LET kids == e.tasks[i].kids
    IN  Resume([e EXCEPT
            !.tasks[i] = IF kids = <<>>
                         THEN [@ EXCEPT !.st = "leaf", !.pend = {}]
                         ELSE [@ EXCEPT !.st = "resolve",
                                        !.pend = Range(kids)],
            !.queries = @ \o ChildQueries(kids)])

\* Mutant: a receiver without a record is reported as vanished.
getChildren_Detects(e, c, i) ==
    IF query(c, i).present THEN getChildren_NoRefresh(
            [e EXCEPT !.tasks[i].kids = query(c, i).childrenIds,
                      !.tasks[i].node.childrenIds = query(c, i).childrenIds,
                      !.self.childrenIds = IF i = e.self.id
                                           THEN query(c, i).childrenIds
                                           ELSE @], c, i)
    ELSE Finish(e, Thrown("ERROR_DELEGATION_ID_MISSING"))

\* getChildren of node i: query(this.id) is answered on ledger c.
\* childrenIdentifiers is refreshed when the record exists, and chain
\* getChildren(this) queries every child id.
getChildren(e, c, i) ==
    LET refreshedNodeDetails == query(c, i)
        kids == IF refreshedNodeDetails.present
                THEN refreshedNodeDetails.childrenIds
                ELSE e.tasks[i].kids
    IN  Resume([e EXCEPT
            !.self = IF i = e.self.id THEN [@ EXCEPT !.childrenIds = kids] ELSE @,
            !.tasks[i] = IF kids = <<>>
                         THEN [@ EXCEPT !.st = "leaf", !.kids = kids,
                                        !.pend = {},
                                        !.node.childrenIds = kids]
                         ELSE [@ EXCEPT !.st = "resolve", !.kids = kids,
                                        !.pend = Range(kids),
                                        !.node.childrenIds = kids],
            !.queries = @ \o ChildQueries(kids)])

\* chain getChildren of node i: query(childId) of child k is answered on
\* ledger c. A missing child fails the call; when the last child is in,
\* getChildren returns the children, and subtreeNodeCount is then invoked on
\* every child.
chainGetChildren(e, c, i, k) ==
    LET childNode == query(c, k)
        pend == e.tasks[i].pend \ {k}
        kids == e.tasks[i].kids
        got == [e.tasks EXCEPT
                    ![k] = [st |-> "resolved", kids |-> childNode.childrenIds,
                            pend |-> {}, node |-> childNode],
                    ![i].pend = pend]
        invoked == [j \in NodeIds |->
                        IF j = i THEN [got[j] EXCEPT !.st = "count"]
                        ELSE IF j \in Range(kids)
                        THEN [got[j] EXCEPT !.st = "refresh"]
                        ELSE got[j]]
    IN  IF ~childNode.present
        THEN Finish(e, Thrown("ERROR_DELEGATION_ID_MISSING"))
        ELSE IF pend # {}
        THEN [e EXCEPT !.tasks = got]
        ELSE IF e.op = "getChildren"
        THEN Finish([e EXCEPT !.tasks = got], ReturnedNodes(children(got, i)))
        ELSE [e EXCEPT !.tasks = invoked,
                       !.queries = @ \o RefreshQueries(kids)]

\* ---------------------------------------------------- findAncestorOwnedBy
\* Mutant: the callers forget result.steps += 1.
Unwind_NoIncrement(res, depth) == res

RECURSIVE Unwind(_, _)
\* The result travels back through depth callers, each doing result.steps += 1.
Unwind(res, depth) ==
    IF depth = 0 THEN res
    ELSE Unwind([res EXCEPT !.steps = @ + 1], depth - 1)

\* getParent of object n on ledger c: null without parentId, else query(parentId).
getParent(c, n) == IF n.parentId # 0 THEN query(c, n.parentId) ELSE NullNode

\* Mutant: the account comparison is inverted.
ownAccount_Inverted(n, d) ==
    IF n.account # d
    THEN [returns |-> TRUE, res |-> [steps |-> 0, node |-> n]]
    ELSE [returns |-> FALSE, res |-> NoAncestor]

\* n.findAncestorOwnedBy(d) up to its getParent: the result when this.account
\* is d, nothing yet otherwise.
ownAccount(n, d) ==
    IF n.account = d
    THEN [returns |-> TRUE, res |-> [steps |-> 0, node |-> n]]
    ELSE [returns |-> FALSE, res |-> NoAncestor]

\* Mutant: revoke does not look at the node of the result.
AfterWalk_NoCheck(e, res) ==
    LET f == [e EXCEPT !.anc = res, !.walk = NoWalk]
    IN  IF e.op = "findAncestorOwnedBy" THEN Finish(f, Returned(res.steps))
        ELSE BeginCount(f)

\* The tail of the caller of findAncestorOwnedBy, with its result res:
\* findAncestorOwnedBy itself returns it, revoke throws when there is no
\* node and counts the subtree otherwise.
AfterWalk(e, res) ==
    LET f == [e EXCEPT !.anc = res, !.walk = NoWalk]
    IN  IF e.op = "findAncestorOwnedBy" THEN Finish(f, Returned(res.steps))
        ELSE IF ~res.node.present THEN Finish(f, Thrown("ERROR_UNAUTHORIZED"))
        ELSE BeginCount(f)

\* n.findAncestorOwnedBy(e.did) is entered at recursion depth `depth`: it
\* returns at once for the owner and for an object without parentId, and
\* is suspended on getParent's query otherwise.
EnterWalk(e, n, depth) ==
    IF ownAccount(n, e.did).returns
    THEN AfterWalk(e, Unwind(ownAccount(n, e.did).res, depth))
    ELSE IF n.parentId = 0
    THEN AfterWalk(e, Unwind(NoAncestor, depth))
    ELSE [e EXCEPT !.pc = "getParent",
                   !.walk = [cur |-> n, depth |-> depth],
                   !.queries = Append(@, Query("getParent", n.parentId))]

\* Mutant: a parent the ledger does not return is an error.
parentAnswered_Vanished(e, c) ==
    LET parent == getParent(c, e.walk.cur)
    IN  IF parent.present
        THEN EnterWalk(e, parent, e.walk.depth + 1)
        ELSE Finish(e, Thrown("ERROR_DELEGATION_ID_MISSING"))

\* Mutant: a walk that ends at a null parent returns steps 0, whatever its
\* depth.
parentAnswered_ZeroSteps(e, c) ==
    LET parent == getParent(c, e.walk.cur)
    IN  IF parent.present
        THEN EnterWalk(e, parent, e.walk.depth + 1)
        ELSE AfterWalk(e, NoAncestor)

\* Mutant: the answer is dropped and the walk keeps waiting for it.
parentAnswered_Waits(e, c) == e

\* getParent's query is answered on ledger c: a null parent ends the walk,
\* else the walk goes on in the parent.
parentAnswered(e, c) ==
    LET parent == getParent(c, e.walk.cur)
    IN  IF parent.present
        THEN EnterWalk(e, parent, e.walk.depth + 1)
        ELSE AfterWalk(e, Unwind(NoAncestor, e.walk.depth))

\* ------------------------------------------------------------ the calls
isRoot(n) == n.id = n.hierarchyId /\ n.parentId = 0

findAncestorOwnedBy(n, d) == EnterWalk(Call(n, "findAncestorOwnedBy", d, 0), n, 0)

\* Mutant: the cached childrenIdentifiers are dropped before the first query.
subtreeNodeCount_Clears(n) ==
    BeginCount(Call([n EXCEPT !.childrenIds = <<>>], "subtreeNodeCount", 0, 0))

subtreeNodeCount(n) == BeginCount(Call(n, "subtreeNodeCount", 0, 0))

\* Mutant: revoke counts the subtree without proving authority first.
revoke_CountsFirst(n, d) == BeginCount(Call(n, "revoke", d, 0))

revoke(n, d) == EnterWalk(Call(n, "revoke", d, 0), n, 0)

\* Mutant: remove proves authority first, as revoke does, without a did.
remove_Authorised(n) == EnterWalk(Call(n, "remove", 0, 0), n, 0)

remove(n) == BeginCount(Call(n, "remove", 0, 0))

\* Mutant: reclaimDeposit takes the bound from the cached childrenIds.
reclaimDeposit_Cached(n) ==
    Emit(Call(n, "reclaimDeposit", 0, 0), Len(n.childrenIds))

reclaimDeposit(n) == BeginCount(Call(n, "reclaimDeposit", 0, 0))

\* Mutant: the signature is not checked.
store_NoSignatureCheck(n, s) ==
    IF isRoot(n)
    THEN [Finish(Call(n, "store", 0, s), Built(storeAsRoot(n))) EXCEPT !.built = 1]
    ELSE [Finish(Call(n, "store", 0, s), Built(storeAsDelegation(n, s)))
            EXCEPT !.built = 1]

store(n, s) ==
    IF isRoot(n)
    THEN [Finish(Call(n, "store", 0, s), Built(storeAsRoot(n))) EXCEPT !.built = 1]
    ELSE IF s = 0
    THEN Finish(Call(n, "store", 0, s), Thrown("ERROR_DELEGATION_SIGNATURE_MISSING"))
    ELSE [Finish(Call(n, "store", 0, s), Built(storeAsDelegation(n, s)))
            EXCEPT !.built = 1]

\* ------------------------------------------------------------ generateHash
\* Crypto.coToUInt8 of an id: its bytes, as many for every id.
coToUInt8(i) == <<i>>

\* DelegationNodeUtils.permissionsAsBitset: four bytes, the first one holding
\* the bits of the permissions (ATTEST 1, DELEGATE 2).
permissionsAsBitset(n) ==
    <<(IF "ATTEST" \in n.permissions THEN 1 ELSE 0)
        + (IF "DELEGATE" \in n.permissions THEN 2 ELSE 0), 0, 0, 0>>

RECURSIVE u8aConcat(_)
\* Crypto.u8aConcat: the byte arrays one after the other.
u8aConcat(arrays) ==
    IF arrays = <<>> THEN <<>> ELSE Head(arrays) \o u8aConcat(Tail(arrays))

\* Crypto.hash(bytes, 256), taken as injective: a digest stands for its
\* message.
hash(bytes) == <<256>> \o bytes

RECURSIVE u8aToHex(_)
\* Crypto.u8aToHex: two hex digits for every byte.
u8aToHex(bytes) ==
    IF bytes = <<>> THEN <<>>
    ELSE <<Head(bytes) \div 16, Head(bytes) % 16>> \o u8aToHex(Tail(bytes))

\* Mutant: the parentId is left out of the hash.
generateHash_NoParent(n) ==
    LET propsToHash == <<n.id, n.hierarchyId>>
        uint8Props == [k \in 1..Len(propsToHash) |-> coToUInt8(propsToHash[k])]
                        \o <<permissionsAsBitset(n)>>
    IN  u8aToHex(hash(u8aConcat(uint8Props)))

\* n.generateHash()
generateHash(n) ==
    LET propsToHash == IF n.parentId # 0
                       THEN <<n.id, n.hierarchyId, n.parentId>>
                       ELSE <<n.id, n.hierarchyId>>
        uint8Props == [k \in 1..Len(propsToHash) |-> coToUInt8(propsToHash[k])]
                        \o <<permissionsAsBitset(n)>>
    IN  u8aToHex(hash(u8aConcat(uint8Props)))

\* ------------------------------------------------ getParent, getChildren
\* n.getParent(): null at once without parentId, else suspended on
\* query(this.parentId).
getParentCall(n) ==
    IF n.parentId # 0
    THEN [Call(n, "getParent", 0, 0) EXCEPT
            !.pc = "parent",
            !.queries = <<Query("getParent", n.parentId)>>]
    ELSE Finish(Call(n, "getParent", 0, 0), ReturnedNode(NullNode))

\* Mutant: a parent that is not on the ledger is an error.
parentReturned_ThrowsOnNull(e, c) ==
    IF getParent(c, e.self).present
    THEN Finish(e, ReturnedNode(getParent(c, e.self)))
    ELSE Finish(e, Thrown("ERROR_DELEGATION_ID_MISSING"))

\* The query is answered on ledger c: getParent returns what query returned.
parentReturned(e, c) == Finish(e, ReturnedNode(getParent(c, e.self)))

\* n.getChildren(): suspended on query(this.id).
getChildrenCall(n) == BeginCount(Call(n, "getChildren", 0, 0))

\* ------------------------------------------------- getLatestState, verify
\* n.getLatestState(): suspended on query(this.id).
getLatestState(n) ==
    [Call(n, "getLatestState", 0, 0) EXCEPT
        !.pc = "latest",
        !.queries = <<Query("getLatestState", n.id)>>]

\* Mutant: a null answer is handed back as if it were a node.
latestAnswered_NoThrow(e, c) == Finish(e, ReturnedNode(query(c, e.self.id)))

\* Mutant: the receiver takes the state read from the ledger.
latestAnswered_Rewrites(e, c) ==
    LET newNodeState == query(c, e.self.id)
    IN  IF ~newNodeState.present
        THEN Finish(e, Thrown("ERROR_DELEGATION_ID_MISSING"))
        ELSE Finish([e EXCEPT !.self = newNodeState],
                    ReturnedNode(newNodeState))

\* The query is answered on ledger c: null throws, else the object query
\* made is returned.
latestAnswered(e, c) ==
    LET newNodeState == query(c, e.self.id)
    IN  IF ~newNodeState.present
        THEN Finish(e, Thrown("ERROR_DELEGATION_ID_MISSING"))
        ELSE Finish(e, ReturnedNode(newNodeState))

\* n.verify(): suspended on query(this.id).
verify(n) ==
    [Call(n, "verify", 0, 0) EXCEPT
        !.pc = "verify",
        !.queries = <<Query("verify", n.id)>>]

\* Mutant: the flag of the receiver is read, not that of the answer.
verifyAnswered_LocalFlag(e, c) ==
    LET node == query(c, e.self.id)
    IN  Finish(e, ReturnedFlag(node.present /\ ~e.self.revoked))

\* The query is answered on ledger c.
verifyAnswered(e, c) ==
    LET node == query(c, e.self.id)
    IN  Finish(e, ReturnedFlag(node.present /\ ~node.revoked))

\* ----------------------------------------------------------- construction
\* DelegationNodeUtils.errorCheck(this): a root has no parentId, and a node
\* with no parentId is a root.
errorCheck(n) == (n.id = n.hierarchyId) <=> (n.parentId = 0)

\* Mutant: the constructor does not call errorCheck.
DelegationNode_NoCheck(input) ==
    [ok |-> TRUE,
     node |-> [present |-> TRUE, id |-> input.id,
               hierarchyId |-> input.hierarchyId,
               parentId |-> input.parentId,
               childrenIds |-> input.childrenIds,
               account |-> input.account,
               permissions |-> input.permissions,
               revoked |-> input.revoked],
     hierarchyDetails |-> NoDetails]

\* new DelegationNode(input): the object with the fields of the input, or
\* the error errorCheck throws.
DelegationNode(input) ==
    LET this == [present |-> TRUE, id |-> input.id,
                 hierarchyId |-> input.hierarchyId,
                 parentId |-> input.parentId,
                 childrenIds |-> input.childrenIds,
                 account |-> input.account,
                 permissions |-> input.permissions,
                 revoked |-> input.revoked]
    IN  IF errorCheck(this)
        THEN [ok |-> TRUE, node |-> this, hierarchyDetails |-> NoDetails]
        ELSE [ok |-> FALSE, node |-> NullNode, hierarchyDetails |-> NoDetails]

\* Mutant: hierarchyId and parentId change places.
newNode_Swapped(uuid, h, p, a, perms) ==
    DelegationNode([id |-> uuid, hierarchyId |-> p, parentId |-> h,
                    account |-> a, permissions |-> perms,
                    childrenIds |-> <<>>, revoked |-> FALSE])

\* DelegationNode.newNode(input), uuid being what UUID.generate() returns.
newNode(uuid, h, p, a, perms) ==
    DelegationNode([id |-> uuid, hierarchyId |-> h, parentId |-> p,
                    account |-> a, permissions |-> perms,
                    childrenIds |-> <<>>, revoked |-> FALSE])

\* DelegationNode.newRoot(input): the hierarchy details are attached to the
\* object the constructor made.
newRoot(uuid, a, perms, c) ==
    LET made == DelegationNode([id |-> uuid, hierarchyId |-> uuid,
                                parentId |-> 0, account |-> a,
                                permissions |-> perms, childrenIds |-> <<>>,
                                revoked |-> FALSE])
    IN  IF made.ok
        THEN [made EXCEPT !.hierarchyDetails =
                    [present |-> TRUE, id |-> uuid, cTypeHash |-> c]]
        ELSE made

\* ------------------------------------------------------ getHierarchyDetails
\* DelegationHierarchyDetails.chain query(hierarchyId) on ledger h.
queryDetails(h, i) == h[i]

\* Mutant: the hierarchy is queried whether or not details are cached.
getHierarchyDetails_Always(n, d) ==
    [Call(n, "getHierarchyDetails", 0, 0) EXCEPT
        !.pc = "queryDetails",
        !.queries = <<Query("getHierarchyDetails", n.hierarchyId)>>]

\* n.getHierarchyDetails() with d in this.hierarchyDetails: the cached details
\* are returned, or the call is suspended on queryDetails(this.hierarchyId).
getHierarchyDetails(n, d) ==
    IF ~d.present
    THEN [Call(n, "getHierarchyDetails", 0, 0) EXCEPT
            !.pc = "queryDetails",
            !.queries = <<Query("getHierarchyDetails", n.hierarchyId)>>]
    ELSE Finish(Call(n, "getHierarchyDetails", 0, 0), ReturnedDetails(d))

\* Mutant: a null answer is returned as if it were details.
detailsAnswered_NoThrow(e, h) ==
    Finish(e, ReturnedDetails(queryDetails(h, e.self.hierarchyId)))

\* The query is answered on ledger h: null throws, details are returned.
detailsAnswered(e, h) ==
    LET details == queryDetails(h, e.self.hierarchyId)
    IN  IF ~details.present
        THEN Finish(e, Thrown("ERROR_HIERARCHY_QUERY"))
        ELSE Finish(e, ReturnedDetails(details))

\* Mutant: the details are returned and not kept.
detailsCached_Never(e, h, d) == d

\* this.hierarchyDetails after the answer, d being the field before it: the
\* details are kept when there are any.
detailsCached(e, h, d) ==
    LET details == queryDetails(h, e.self.hierarchyId)
    IN  IF ~details.present THEN d ELSE details

\* ------------------------------------------------------ state and steps
\* The running (or last) call as one value, and its write-back.
Eng ==
    [self |-> self, op |-> op, did |-> did, sig |-> sig, pc |-> pc,
     walk |-> walk, anc |-> anc, tasks |-> tasks, result |-> result,
     built |-> built, queries |-> queries]

Apply(e) ==
    /\ self' = e.self
    /\ op' = e.op
    /\ did' = e.did
    /\ sig' = e.sig
    /\ pc' = e.pc
    /\ walk' = e.walk
    /\ anc' = e.anc
    /\ tasks' = e.tasks
    /\ result' = e.result
    /\ built' = e.built
    /\ queries' = e.queries

\* The engine does not see another actor's change. The record of a call that
\* has returned describes the ledger it ran on: it is dropped once the ledger
\* moves on, while a suspended call keeps everything it holds.
Unseen(e) == IF e.pc = "idle" THEN Call(e.self, "none", 0, 0) ELSE e

\* ------------------------------------------------------------- the ledger
RECURSIVE Descendants(_, _)
\* The strict descendants of node i on ledger c.
Descendants(c, i) ==
    IF ~c[i].present THEN {}
    ELSE LET kids == Range(c[i].childrenIds)
         IN  kids \cup UNION {Descendants(c, k) : k \in kids}

\* A root creation is finalised: a node with id = hierarchyId, no parentId.
StoredRoot(c, i, a) ==
    [c EXCEPT ![i] =
        [present |-> TRUE, id |-> i, hierarchyId |-> i, parentId |-> 0,
         childrenIds |-> <<>>, account |-> a,
         permissions |-> {"ATTEST", "DELEGATE"}, revoked |-> FALSE]]

\* A delegation is finalised below parent p, and listed last in its children.
StoredDelegation(c, i, p, a) ==
    [c EXCEPT
        ![i] = [present |-> TRUE, id |-> i, hierarchyId |-> c[p].hierarchyId,
                parentId |-> p, childrenIds |-> <<>>, account |-> a,
                permissions |-> {"ATTEST", "DELEGATE"}, revoked |-> FALSE],
        ![p].childrenIds = Append(@, i)]

\* A remove cascade is executed: i and its subtree are gone, and i is no
\* longer listed in its parent.
Removed(c, i) ==
    [j \in NodeIds |->
        IF j \in {i} \cup Descendants(c, i) THEN NullNode
        ELSE IF j = c[i].parentId
        THEN [c[j] EXCEPT !.childrenIds = SelectSeq(@, LAMBDA x : x # i)]
        ELSE c[j]]

\* A revoke cascade is executed: i and its subtree are revoked.
Revoked(c, i) ==
    [j \in NodeIds |->
        IF j \in {i} \cup Descendants(c, i)
        THEN [c[j] EXCEPT !.revoked = TRUE]
        ELSE c[j]]

\* The object n, stored by its owner: not revoked, without children, and
\* listed last in the children of its parent.
StoredNode(c, n) ==
    [j \in NodeIds |->
        IF j = n.id THEN [n EXCEPT !.childrenIds = <<>>, !.revoked = FALSE]
        ELSE IF j = n.parentId
        THEN [c[j] EXCEPT !.childrenIds = Append(@, n.id)]
        ELSE c[j]]

\* The hierarchy details stored with root i, bound to claim type c.
StoredHierarchy(h, i, c) ==
    [h EXCEPT ![i] = [present |-> TRUE, id |-> i, cTypeHash |-> c]]

\* The details of a hierarchy go with its root, c being the ledger after the
\* removal.
RemovedHierarchies(h, c) ==
    [i \in NodeIds |-> IF c[i].present THEN h[i] ELSE NoDetails]

\* The claim type another actor binds the hierarchy of root i to.
CTypeOf(i) == ((i - 1) % NumCTypes) + 1

\* What a change by another actor leaves of the caller's records: the
\* object and what was seen of it stay, the caches recorded for a call that
\* has returned are dropped with the call's record.
OtherActor ==
    /\ before' = IF pc = "idle" THEN NoCaches ELSE before
    /\ UNCHANGED <<hierarchyDetails, born, seen>>

\* Accounts have no meaning beyond being equal or not: a new node's owner is
\* an account the state already names, or the least one it does not.
KnownAccounts ==
    {chain[i].account : i \in {j \in NodeIds : chain[j].present}}
        \cup {self.account, did}

NextAccount(a) == \A b \in Accounts : b < a => b \in KnownAccounts

\* Another actor stores a root.
LedgerStoreRoot(a) ==
    /\ nextId <= MaxNodes
    /\ NextAccount(a)
    /\ chain' = StoredRoot(chain, nextId, a)
    /\ hierarchies' = StoredHierarchy(hierarchies, nextId, CTypeOf(nextId))
    /\ nextId' = nextId + 1
    /\ Apply(Unseen(Eng))
    /\ twin' = Unseen(twin)
    /\ stable' = FALSE
    /\ OtherActor

\* Another actor stores a delegation below p, which is on the ledger, not
\* revoked and may delegate.
LedgerStoreDelegation(p, a) ==
    /\ nextId <= MaxNodes
    /\ NextAccount(a)
    /\ chain[p].present
    /\ ~chain[p].revoked
    /\ "DELEGATE" \in chain[p].permissions
    /\ chain' = StoredDelegation(chain, nextId, p, a)
    /\ nextId' = nextId + 1
    /\ Apply(Unseen(Eng))
    /\ twin' = Unseen(twin)
    /\ stable' = FALSE
    /\ OtherActor
    /\ UNCHANGED hierarchies

\* Another actor removes node i with its subtree.
LedgerRemove(i) ==
    /\ chain[i].present
    /\ chain' = Removed(chain, i)
    /\ hierarchies' = RemovedHierarchies(hierarchies, Removed(chain, i))
    /\ Apply(Unseen(Eng))
    /\ twin' = Unseen(twin)
    /\ stable' = FALSE
    /\ OtherActor
    /\ UNCHANGED nextId

\* Another actor revokes node i with its subtree.
LedgerRevoke(i) ==
    /\ chain[i].present
    /\ ~chain[i].revoked
    /\ chain' = Revoked(chain, i)
    /\ Apply(Unseen(Eng))
    /\ twin' = Unseen(twin)
    /\ stable' = FALSE
    /\ OtherActor
    /\ UNCHANGED <<nextId, hierarchies>>

\* The store request of the object held is executed, for the first time: a
\* root with its hierarchy details, a delegation below a parent that is on
\* the ledger in the same hierarchy, not revoked, and may delegate.
LedgerStoreSelf ==
    /\ self.present
    /\ born.by \in {"newRoot", "newNode"}
    /\ ~seen.stored
    /\ ~chain[self.id].present
    /\ \/ isRoot(self)
       \/ /\ self.parentId # 0
          /\ chain[self.parentId].present
          /\ chain[self.parentId].hierarchyId = self.hierarchyId
          /\ ~chain[self.parentId].revoked
          /\ "DELEGATE" \in chain[self.parentId].permissions
    /\ chain' = StoredNode(chain, self)
    /\ hierarchies' = IF isRoot(self)
                      THEN StoredHierarchy(hierarchies, self.id,
                                           born.cTypeHash)
                      ELSE hierarchies
    /\ Apply(Unseen(Eng))
    /\ twin' = Unseen(twin)
    /\ stable' = FALSE
    /\ before' = IF pc = "idle" THEN NoCaches ELSE before
    /\ seen' = [seen EXCEPT !.stored = TRUE]
    /\ UNCHANGED <<nextId, hierarchyDetails, born>>

\* -------------------------------------------------------------- the caller
\* DelegationNode.query(delegationId): the caller takes a fresh object.
QueryNode(i) ==
    /\ pc = "idle"
    /\ query(chain, i).present
    /\ Apply(Call(query(chain, i), "none", 0, 0))
    /\ twin' = Call(NullNode, "none", 0, 0)
    /\ stable' = TRUE
    /\ hierarchyDetails' = NoDetails
    /\ born' = Born("query", query(chain, i), 0)
    /\ before' = NoCaches
    /\ seen' = NothingSeen
    /\ UNCHANGED ledgerVars

\* The call e is made: the ledger is as it is now.
Invoke(e) ==
    /\ Apply(e)
    /\ stable' = TRUE
    /\ UNCHANGED <<ledgerVars, twin, objectVars>>

CallFindAncestorOwnedBy(d) ==
    /\ pc = "idle"
    /\ self.present
    /\ Invoke(findAncestorOwnedBy(self, d))

CallSubtreeNodeCount ==
    /\ pc = "idle"
    /\ self.present
    /\ Invoke(subtreeNodeCount(self))

CallRevoke(d) ==
    /\ pc = "idle"
    /\ self.present
    /\ Invoke(revoke(self, d))

CallRemove ==
    /\ pc = "idle"
    /\ self.present
    /\ Invoke(remove(self))

CallReclaimDeposit ==
    /\ pc = "idle"
    /\ self.present
    /\ Invoke(reclaimDeposit(self))

CallStore(s) ==
    /\ pc = "idle"
    /\ self.present
    /\ Invoke(store(self, s))

\* --------------------------------------------------- the ledger's answers
\* The pending getParent query is answered.
ParentResponse ==
    /\ pc = "getParent"
    /\ Apply(parentAnswered(Eng, chain))
    /\ UNCHANGED <<ledgerVars, stable, twin, objectVars>>

\* The query(this.id) of getChildren on node i is answered.
RefreshResponse(i) ==
    /\ pc = "count"
    /\ tasks[i].st = "refresh"
    /\ Apply(getChildren(Eng, chain, i))
    /\ UNCHANGED <<ledgerVars, stable, twin, objectVars>>

\* The query of child k by chain getChildren of node i is answered.
ResolveResponse(i, k) ==
    /\ pc = "count"
    /\ tasks[i].st = "resolve"
    /\ k \in tasks[i].pend
    /\ Apply(chainGetChildren(Eng, chain, i, k))
    /\ UNCHANGED <<ledgerVars, stable, twin, objectVars>>

\* ------------------------------------------------------ the specification
Init ==
    /\ chain = [i \in NodeIds |-> NullNode]
    /\ nextId = 1
    /\ self = NullNode
    /\ op = "none"
    /\ did = 0
    /\ sig = 0
    /\ pc = "idle"
    /\ walk = NoWalk
    /\ anc = NoAncestor
    /\ tasks = NoTasks
    /\ result = NoResult
    /\ built = 0
    /\ queries = <<>>
    /\ stable = TRUE
    /\ twin = Call(NullNode, "none", 0, 0)
    /\ hierarchies = [i \in NodeIds |-> NoDetails]
    /\ hierarchyDetails = NoDetails
    /\ born = NotBorn
    /\ before = NoCaches
    /\ seen = NothingSeen

Next ==
    \/ \E a \in Accounts : LedgerStoreRoot(a)
    \/ \E p \in NodeIds, a \in Accounts : LedgerStoreDelegation(p, a)
    \/ \E i \in NodeIds : LedgerRemove(i)
    \/ \E i \in NodeIds : QueryNode(i)
    \/ \E d \in Accounts : CallFindAncestorOwnedBy(d)
    \/ CallSubtreeNodeCount
    \/ \E d \in Accounts : CallRevoke(d)
    \/ CallRemove
    \/ CallReclaimDeposit
    \/ \E s \in Signatures : CallStore(s)
    \/ ParentResponse
    \/ \E i \in NodeIds : RefreshResponse(i)
    \/ \E i, k \in NodeIds : ResolveResponse(i, k)

Spec == Init /\ [][Next]_vars

\* ------------------------------------------- two calls given the same answers
\* remove and reclaimDeposit are called on the same object at the same ledger
\* state; every answer the ledger gives to a query of the first call is given
\* to the second call as well. A second call that is not waiting for the
\* query answered has left the first one's course.
Diverged(e) == [e EXCEPT !.pc = "diverged"]

TwinCall ==
    /\ pc = "idle"
    /\ self.present
    /\ Apply(remove(self))
    /\ twin' = reclaimDeposit(self)
    /\ stable' = TRUE
    /\ UNCHANGED <<ledgerVars, objectVars>>

TwinRefreshResponse(i) ==
    /\ pc = "count"
    /\ tasks[i].st = "refresh"
    /\ Apply(getChildren(Eng, chain, i))
    /\ twin' = IF twin.pc = "count" /\ twin.tasks[i].st = "refresh"
               THEN getChildren(twin, chain, i)
               ELSE Diverged(twin)
    /\ UNCHANGED <<ledgerVars, stable, objectVars>>

TwinResolveResponse(i, k) ==
    /\ pc = "count"
    /\ tasks[i].st = "resolve"
    /\ k \in tasks[i].pend
    /\ Apply(chainGetChildren(Eng, chain, i, k))
    /\ twin' = IF /\ twin.pc = "count"
                  /\ twin.tasks[i].st = "resolve"
                  /\ k \in twin.tasks[i].pend
               THEN chainGetChildren(twin, chain, i, k)
               ELSE Diverged(twin)
    /\ UNCHANGED <<ledgerVars, stable, objectVars>>

NextTwin ==
    \/ \E a \in Accounts : LedgerStoreRoot(a)
    \/ \E p \in NodeIds, a \in Accounts : LedgerStoreDelegation(p, a)
    \/ \E i \in NodeIds : LedgerRemove(i)
    \/ \E i \in NodeIds : QueryNode(i)
    \/ TwinCall
    \/ \E i \in NodeIds : TwinRefreshResponse(i)
    \/ \E i, k \in NodeIds : TwinResolveResponse(i, k)

SpecTwin == Init /\ [][NextTwin]_vars

\* ------------------------------------- objects made and asked by the caller
\* The permission sets a caller hands to newNode and newRoot.
PermissionSets == (SUBSET Permissions) \ {{}}

\* What the caller has seen of the object once call e has gone this far.
SeenAfter(s, e) ==
    IF e.op = "generateHash"
    THEN [s EXCEPT !.hash = IF s.hashed = 0 THEN e.result.hash ELSE @,
                   !.hashed = IF @ = 0 THEN 1 ELSE IF @ = 2 THEN 3 ELSE @]
    ELSE LET t == [s EXCEPT !.hashed = IF @ = 1 THEN 2 ELSE @]
         IN  IF e.pc = "queryDetails"
             THEN [t EXCEPT !.asked = IF @ = "none" THEN "once" ELSE "more"]
             ELSE IF e.pc = "idle" /\ e.op = "getHierarchyDetails"
             THEN [t EXCEPT
                    !.details = IF ~@.present /\ e.result.kind = "details"
                                THEN e.result.details ELSE @,
                    !.failed = @ \/ e.result.kind = "error"]
             ELSE IF e.pc = "idle" /\ e.op = "verify"
             THEN [t EXCEPT
                    !.verify = IF e.result.flag
                               THEN (IF @ \in {"ended", "again"}
                                     THEN "again" ELSE "active")
                               ELSE (IF @ = "none" THEN "none" ELSE "ended")]
             ELSE t

\* Call e is made: the ledger is as it is now, and the caches the call
\* starts from are recorded.
Begin(e) ==
    /\ Apply(e)
    /\ stable' = TRUE
    /\ before' = Caches(self, hierarchyDetails)
    /\ seen' = [SeenAfter(seen, e) EXCEPT !.rejected = NoQuery]
    /\ UNCHANGED <<ledgerVars, twin, hierarchyDetails, born>>

\* The caller takes what a construction with the fields `given` made: the
\* object, or the error.
Take(by, made, given, c) ==
    /\ Apply(IF made.ok
             THEN Finish(Call(made.node, by, 0, 0), ReturnedNode(made.node))
             ELSE Finish(Call(NullNode, by, 0, 0), Thrown("InvalidNode")))
    /\ hierarchyDetails' = made.hierarchyDetails
    /\ born' = [Born(by, made.node, c) EXCEPT !.given = given]
    /\ before' = NoCaches
    /\ seen' = NothingSeen
    /\ stable' = TRUE
    /\ UNCHANGED <<chain, hierarchies, twin>>

\* The caller lets go of the object it holds and of the last result.
Release ==
    /\ pc = "idle"
    /\ self.present \/ op # "none"
    /\ Apply(Call(NullNode, "none", 0, 0))
    /\ hierarchyDetails' = NoDetails
    /\ born' = NotBorn
    /\ before' = NoCaches
    /\ seen' = NothingSeen
    /\ stable' = TRUE
    /\ UNCHANGED <<ledgerVars, twin>>

\* DelegationNode.newRoot is called by a caller that holds nothing;
\* UUID.generate() gives the next fresh id.
NewRoot(a, perms, c) ==
    /\ pc = "idle"
    /\ ~self.present
    /\ nextId <= MaxNodes
    /\ NextAccount(a)
    /\ Take("newRoot", newRoot(nextId, a, perms, c),
            [Identity(NullNode) EXCEPT !.account = a, !.permissions = perms], c)
    /\ nextId' = nextId + 1

\* DelegationNode.newNode is called with a hierarchy id other than the id
\* about to be generated, and with a parentId (Required<> in the input type).
NewNode(h, p, a, perms) ==
    /\ pc = "idle"
    /\ ~self.present
    /\ nextId <= MaxNodes
    /\ h # nextId
    /\ p # 0
    /\ NextAccount(a)
    /\ Take("newNode", newNode(nextId, h, p, a, perms),
            [Identity(NullNode) EXCEPT !.hierarchyId = h, !.parentId = p,
                                       !.account = a, !.permissions = perms],
            0)
    /\ nextId' = nextId + 1

\* new DelegationNode(input) is called with any IDelegationNode, by a caller
\* that holds nothing.
Construct(input) ==
    /\ pc = "idle"
    /\ op = "none"
    /\ ~self.present
    /\ NextAccount(input.account)
    /\ Take("constructor", DelegationNode(input), Identity(input), 0)
    /\ UNCHANGED nextId

CallIsRoot ==
    /\ pc = "idle"
    /\ self.present
    /\ Begin(Finish(Call(self, "isRoot", 0, 0), ReturnedFlag(isRoot(self))))

CallGetHierarchyDetails ==
    /\ pc = "idle"
    /\ self.present
    /\ Begin(getHierarchyDetails(self, hierarchyDetails))

\* The pending queryDetails is answered.
DetailsResponse ==
    /\ pc = "queryDetails"
    /\ Apply(detailsAnswered(Eng, hierarchies))
    /\ hierarchyDetails' = detailsCached(Eng, hierarchies, hierarchyDetails)
    /\ seen' = SeenAfter(seen, detailsAnswered(Eng, hierarchies))
    /\ UNCHANGED <<ledgerVars, stable, twin, born, before>>

\* getHierarchyDetails is called on the object once more, by a second
\* caller, whether or not the first caller's call is suspended.
TwinCallGetHierarchyDetails ==
    /\ self.present
    /\ twin.pc = "idle"
    /\ twin' = getHierarchyDetails(self, hierarchyDetails)
    /\ seen' = [SeenAfter(seen, getHierarchyDetails(self, hierarchyDetails))
                    EXCEPT !.overlapped = @ \/ pc = "queryDetails"]
    /\ UNCHANGED <<ledgerVars, self, op, did, sig, pc, walk, anc, tasks,
                   result, built, queries, stable, hierarchyDetails, born,
                   before>>

\* The pending queryDetails of the second caller's call is answered.
TwinDetailsResponse ==
    /\ twin.pc = "queryDetails"
    /\ twin' = detailsAnswered(twin, hierarchies)
    /\ hierarchyDetails' = detailsCached(twin, hierarchies, hierarchyDetails)
    /\ seen' = SeenAfter(seen, detailsAnswered(twin, hierarchies))
    /\ UNCHANGED <<ledgerVars, self, op, did, sig, pc, walk, anc, tasks,
                   result, built, queries, stable, born, before>>

CallGenerateHash ==
    /\ pc = "idle"
    /\ self.present
    /\ Begin(Finish(Call(self, "generateHash", 0, 0),
                    ReturnedHash(generateHash(self))))

\* findAncestorOwnedBy, subtreeNodeCount, revoke, remove or reclaimDeposit
\* is called, the caches it starts from being recorded.
CallCascade(o, d) ==
    /\ pc = "idle"
    /\ self.present
    /\ o \in {"revoke", "findAncestorOwnedBy"} \/ d = 0
    /\ Begin(CASE o = "revoke" -> revoke(self, d)
              [] o = "findAncestorOwnedBy" -> findAncestorOwnedBy(self, d)
              [] o = "remove" -> remove(self)
              [] o = "reclaimDeposit" -> reclaimDeposit(self)
              [] o = "subtreeNodeCount" -> subtreeNodeCount(self))

CallGetLatestState ==
    /\ pc = "idle"
    /\ self.present
    /\ Begin(getLatestState(self))

\* The query of a getLatestState call is answered.
LatestResponse ==
    /\ pc = "latest"
    /\ Apply(latestAnswered(Eng, chain))
    /\ UNCHANGED <<ledgerVars, stable, twin, objectVars>>

CallVerify ==
    /\ pc = "idle"
    /\ self.present
    /\ Begin(verify(self))

\* The query of a verify call is answered.
VerifyResponse ==
    /\ pc = "verify"
    /\ Apply(verifyAnswered(Eng, chain))
    /\ seen' = SeenAfter(seen, verifyAnswered(Eng, chain))
    /\ UNCHANGED <<ledgerVars, stable, twin, hierarchyDetails, born, before>>

\* The caller builds an object from the fields of node i of the ledger,
\* with the revoked flag r.
Rebuild(i, r) ==
    /\ chain[i].present
    /\ Construct([chain[i] EXCEPT !.revoked = r])

\* The caller abandons the call at the query it is suspended on.
Abandon ==
    /\ pc # "idle"
    /\ Apply(Abandoned(Eng))
    /\ UNCHANGED <<ledgerVars, stable, twin, objectVars>>

\* The ledger client fails the pending getParent query.
FailParent ==
    /\ pc = "getParent"
    /\ Apply(queryFailed(Eng, Query("getParent", walk.cur.parentId)))
    /\ seen' = [seen EXCEPT
                    !.rejected = Query("getParent", walk.cur.parentId)]
    /\ UNCHANGED <<ledgerVars, stable, twin, hierarchyDetails, born, before>>

\* The ledger client fails the query(this.id) of getChildren on node i: the
\* invocation on i is over.
FailRefresh(i) ==
    /\ pc = "count"
    /\ tasks[i].st = "refresh"
    /\ Apply([queryFailed(Eng, Query("getChildren", i)) EXCEPT
                !.tasks[i].st = "failed"])
    /\ seen' = [seen EXCEPT !.rejected = Query("getChildren", i)]
    /\ UNCHANGED <<ledgerVars, stable, twin, hierarchyDetails, born, before>>

\* The ledger client fails the query of child k by chain getChildren of node
\* i: the invocation on i is over, whatever its other child queries answer.
FailResolve(i, k) ==
    /\ pc = "count"
    /\ tasks[i].st = "resolve"
    /\ k \in tasks[i].pend
    /\ Apply([queryFailed(Eng, Query("chain.getChildren", k)) EXCEPT
                !.tasks[i].st = "failed", !.tasks[i].pend = @ \ {k}])
    /\ seen' = [seen EXCEPT !.rejected = Query("chain.getChildren", k)]
    /\ UNCHANGED <<ledgerVars, stable, twin, hierarchyDetails, born, before>>

\* After the call has rejected, a sibling invocation that Promise.all had
\* started goes on: its query(this.id) is answered.
StragglerRefresh(i) ==
    /\ pc = "idle"
    /\ seen.rejected # NoQuery
    /\ tasks[i].st = "refresh"
    /\ Apply(Background(Eng, getChildren([Eng EXCEPT !.pc = "count"],
                                          chain, i)))
    /\ UNCHANGED <<ledgerVars, stable, twin, objectVars>>

\* After the call has rejected, a child query that was pending is answered:
\* that of a sibling invocation, or one next to the failed query, whose
\* answer nobody awaits any more.
StragglerResolve(i, k) ==
    /\ pc = "idle"
    /\ seen.rejected # NoQuery
    /\ tasks[i].st \in {"resolve", "failed"}
    /\ k \in tasks[i].pend
    /\ Apply(IF tasks[i].st = "failed"
             THEN [Eng EXCEPT !.tasks[i].pend = @ \ {k}]
             ELSE Background(Eng, chainGetChildren([Eng EXCEPT !.pc = "count"],
                                                   chain, i, k)))
    /\ UNCHANGED <<ledgerVars, stable, twin, objectVars>>

CallGetParent ==
    /\ pc = "idle"
    /\ self.present
    /\ Begin(getParentCall(self))

\* The query of a getParent call is answered.
GetParentResponse ==
    /\ pc = "parent"
    /\ Apply(parentReturned(Eng, chain))
    /\ UNCHANGED <<ledgerVars, stable, twin, objectVars>>

CallGetChildren ==
    /\ pc = "idle"
    /\ self.present
    /\ Begin(getChildrenCall(self))

\* ------------------------------------------- the hierarchy details of a node
\* getHierarchyDetails reads hierarchyId and the cache only: the objects are
\* built with every permission, and below the root of their hierarchy.
NextHierarchy ==
    \/ \E a \in Accounts : LedgerStoreRoot(a)
    \/ \E p \in NodeIds, a \in Accounts : LedgerStoreDelegation(p, a)
    \/ \E i \in NodeIds : LedgerRemove(i)
    \/ \E i \in NodeIds : QueryNode(i)
    \/ \E a \in Accounts, c \in CTypeHashes : NewRoot(a, Permissions, c)
    \/ \E h \in NodeIds, a \in Accounts : NewNode(h, h, a, Permissions)
    \/ CallGetHierarchyDetails
    \/ DetailsResponse
    \/ Release

SpecHierarchy == Init /\ [][NextHierarchy]_vars

\* ------------------------------------------------------------ construction
\* The IDelegationNode values handed to the constructor.
Inputs ==
    [id : NodeIds, hierarchyId : NodeIds, parentId : 0..MaxNodes,
     childrenIds : {<<>>} \cup {<<k>> : k \in NodeIds},
     account : Accounts, permissions : PermissionSets, revoked : BOOLEAN]

NextConstruct ==
    \/ \E input \in Inputs : Construct(input)
    \/ \E a \in Accounts, perms \in PermissionSets, c \in CTypeHashes :
            NewRoot(a, perms, c)
    \/ \E h \in NodeIds, p \in NodeIds, a \in Accounts,
          perms \in PermissionSets : NewNode(h, p, a, perms)
    \/ CallIsRoot
    \/ Release

SpecConstruct == Init /\ [][NextConstruct]_vars

\* ------------------------------------------------- the hash of an object
\* Objects read from the ledger and objects newNode made are hashed, before
\* and after getHierarchyDetails, getChildren and remove are called on them,
\* while the ledger changes.
NextHash ==
    \/ LedgerStoreRoot(1)
    \/ \E p \in NodeIds : LedgerStoreDelegation(p, 1)
    \/ \E i \in NodeIds : LedgerRemove(i)
    \/ \E i \in NodeIds : QueryNode(i)
    \/ \E h \in NodeIds, perms \in PermissionSets : NewNode(h, h, 1, perms)
    \/ Release
    \/ CallGenerateHash
    \/ CallGetHierarchyDetails
    \/ DetailsResponse
    \/ CallGetChildren
    \/ CallCascade("remove", 0)
    \/ \E i \in NodeIds : RefreshResponse(i)
    \/ \E i, k \in NodeIds : ResolveResponse(i, k)

SpecHash == Init /\ [][NextHash]_vars

\* ------------------------------------------------ the readonly revoked flag
\* The ledger stores, revokes and removes nodes while the caller, holding an
\* object read from the ledger or rebuilt from its fields, revokes and reads
\* the latest state.
NextRevoked ==
    \/ LedgerStoreRoot(1)
    \/ \E p \in NodeIds : LedgerStoreDelegation(p, 1)
    \/ \E i \in NodeIds : LedgerRevoke(i)
    \/ \E i \in NodeIds : LedgerRemove(i)
    \/ \E i \in NodeIds : QueryNode(i)
    \/ \E i \in NodeIds, r \in BOOLEAN : Rebuild(i, r)
    \/ Release
    \/ CallGetLatestState
    \/ LatestResponse
    \/ CallCascade("revoke", 1)
    \/ \E i \in NodeIds : RefreshResponse(i)
    \/ \E i, k \in NodeIds : ResolveResponse(i, k)

SpecRevoked == Init /\ [][NextRevoked]_vars

\* ------------------------------------------------ the lifecycle of a node
\* The ledger stores, revokes and removes nodes, the object held among
\* them, while the caller verifies it.
NextLifecycle ==
    \/ LedgerStoreRoot(1)
    \/ \E p \in NodeIds : LedgerStoreDelegation(p, 1)
    \/ \E i \in NodeIds : LedgerRevoke(i)
    \/ \E i \in NodeIds : LedgerRemove(i)
    \/ LedgerStoreSelf
    \/ \E i \in NodeIds : QueryNode(i)
    \/ \E i \in NodeIds : Rebuild(i, TRUE)
    \/ NewRoot(1, Permissions, 1)
    \/ Release
    \/ CallVerify
    \/ VerifyResponse

SpecLifecycle == Init /\ [][NextLifecycle]_vars

\* ------------------------------------------------------ abandoned calls
\* The calls that suspend on ledger queries are made on objects read from
\* the ledger, and answered or abandoned at any of their queries, while the
\* ledger changes.
NextAbandon ==
    \/ LedgerStoreRoot(1)
    \/ \E p \in NodeIds : LedgerStoreDelegation(p, 1)
    \/ \E i \in NodeIds : LedgerRemove(i)
    \/ \E i \in NodeIds : QueryNode(i)
    \/ CallGetChildren
    \/ CallGetHierarchyDetails
    \/ \E d \in Accounts : CallCascade("revoke", d)
    \/ \E o \in {"subtreeNodeCount", "remove", "reclaimDeposit"} :
            CallCascade(o, 0)
    \/ DetailsResponse
    \/ ParentResponse
    \/ \E i \in NodeIds : RefreshResponse(i)
    \/ \E i, k \in NodeIds : ResolveResponse(i, k)
    \/ Abandon

SpecAbandon == Init /\ [][NextAbandon]_vars

\* -------------------------------------------- overlapping detail queries
\* Two callers call getHierarchyDetails on the same object, one after the
\* other or side by side; the second caller never waits for the first.
NextOverlap ==
    \/ LedgerStoreRoot(1)
    \/ \E p \in NodeIds : LedgerStoreDelegation(p, 1)
    \/ \E i \in NodeIds : LedgerRemove(i)
    \/ \E i \in NodeIds : QueryNode(i)
    \/ twin.pc = "idle" /\ CallGetHierarchyDetails
    \/ DetailsResponse
    \/ TwinCallGetHierarchyDetails
    \/ TwinDetailsResponse

SpecOverlap == Init /\ [][NextOverlap]_vars

\* --------------------------------------------- objects without a record
\* The caller builds an object with id i, which the ledger does not hold,
\* in the hierarchy of node k of the ledger, with k as its only child.
Adopt(i, k) ==
    /\ ~chain[i].present
    /\ chain[k].present
    /\ Construct([present |-> TRUE, id |-> i,
                  hierarchyId |-> chain[k].hierarchyId,
                  parentId |-> chain[k].hierarchyId,
                  childrenIds |-> <<k>>, account |-> 1,
                  permissions |-> Permissions, revoked |-> FALSE])

\* getChildren and the calls that count the subtree run on objects read from
\* the ledger, which may be removed afterwards, and on objects the ledger
\* never held.
NextStale ==
    \/ LedgerStoreRoot(1)
    \/ \E p \in NodeIds : LedgerStoreDelegation(p, 1)
    \/ \E i \in NodeIds : LedgerRemove(i)
    \/ \E i \in NodeIds : QueryNode(i)
    \/ \E i, k \in NodeIds : Adopt(i, k)
    \/ Release
    \/ CallGetChildren
    \/ \E o \in {"subtreeNodeCount", "remove", "reclaimDeposit"} :
            CallCascade(o, 0)
    \/ \E i \in NodeIds : RefreshResponse(i)
    \/ \E i, k \in NodeIds : ResolveResponse(i, k)

SpecStale == Init /\ [][NextStale]_vars

\* ------------------------------------------------- the authority walk
\* findAncestorOwnedBy and revoke are called with any did on objects read
\* from a ledger of several owners, which changes while the calls run.
NextAuthority ==
    \/ \E a \in Accounts : LedgerStoreRoot(a)
    \/ \E p \in NodeIds, a \in Accounts : LedgerStoreDelegation(p, a)
    \/ \E i \in NodeIds : LedgerRemove(i)
    \/ \E i \in NodeIds : QueryNode(i)
    \/ \E o \in {"findAncestorOwnedBy", "revoke"}, d \in Accounts :
            CallCascade(o, d)
    \/ ParentResponse
    \/ \E i \in NodeIds : RefreshResponse(i)
    \/ \E i, k \in NodeIds : ResolveResponse(i, k)

SpecAuthority == Init /\ [][NextAuthority]_vars

\* ------------------------------------------------ a hierarchy of three
\* The owners of the hierarchy R, C1, C2: A owns R, B owns C1, D owns C2.
Owners == [A |-> 1, B |-> 2, D |-> 3]

\* R, C1 below R and C2 below C1 are stored in this order; the caller reads
\* a node and calls subtreeNodeCount, findAncestorOwnedBy or revoke on it.
NextThree ==
    \/ nextId = 1 /\ LedgerStoreRoot(Owners.A)
    \/ nextId = 2 /\ LedgerStoreDelegation(1, Owners.B)
    \/ nextId = 3 /\ LedgerStoreDelegation(2, Owners.D)
    \/ \E i \in NodeIds : QueryNode(i)
    \/ CallCascade("subtreeNodeCount", 0)
    \/ \E o \in {"findAncestorOwnedBy", "revoke"},
          d \in {Owners.A, Owners.B, Owners.D} : CallCascade(o, d)
    \/ ParentResponse
    \/ \E i \in NodeIds : RefreshResponse(i)
    \/ \E i, k \in NodeIds : ResolveResponse(i, k)

SpecThree == Init /\ [][NextThree]_vars

\* ------------------------------------------------- counting the subtree
\* subtreeNodeCount and remove are called on objects read from the ledger,
\* and their queries answered in any order, while the ledger changes.
NextCount ==
    \/ LedgerStoreRoot(1)
    \/ \E p \in NodeIds : LedgerStoreDelegation(p, 1)
    \/ \E i \in NodeIds : LedgerRemove(i)
    \/ \E i \in NodeIds : QueryNode(i)
    \/ \E o \in {"subtreeNodeCount", "remove"} : CallCascade(o, 0)
    \/ \E i \in NodeIds : RefreshResponse(i)
    \/ \E i, k \in NodeIds : ResolveResponse(i, k)

SpecCount == Init /\ [][NextCount]_vars

\* ------------------------------------------------ changes during a count
\* Another actor changes the ledger before a call, or while the call runs,
\* after its first query was answered: between the queries of the call.
Between == pc = "idle" \/ (pc = "count" /\ tasks[self.id].st # "refresh")

NextHeight ==
    \/ Between /\ LedgerStoreRoot(1)
    \/ \E p \in NodeIds : Between /\ LedgerStoreDelegation(p, 1)
    \/ \E i \in NodeIds : Between /\ LedgerRemove(i)
    \/ \E i \in NodeIds : QueryNode(i)
    \/ \E o \in {"subtreeNodeCount", "remove"} : CallCascade(o, 0)
    \/ CallCascade("revoke", 1)
    \/ \E i \in NodeIds : RefreshResponse(i)
    \/ \E i, k \in NodeIds : ResolveResponse(i, k)

SpecHeight == Init /\ [][NextHeight]_vars

\* ---------------------------------------------------------- termination
\* The traversing calls are made on objects read from the ledger, by its
\* owner (account 1) or by a stranger; the ledger changes between the calls
\* and is one finite tree while a call runs.
NextTerminates ==
    \/ pc = "idle" /\ LedgerStoreRoot(1)
    \/ \E p \in NodeIds : pc = "idle" /\ LedgerStoreDelegation(p, 1)
    \/ \E i \in NodeIds : pc = "idle" /\ LedgerRemove(i)
    \/ \E i \in NodeIds : QueryNode(i)
    \/ \E o \in {"findAncestorOwnedBy", "revoke"}, d \in {1, NumAccounts} :
            CallCascade(o, d)
    \/ \E o \in {"subtreeNodeCount", "remove", "reclaimDeposit"} :
            CallCascade(o, 0)
    \/ ParentResponse
    \/ \E i \in NodeIds : RefreshResponse(i)
    \/ \E i, k \in NodeIds : ResolveResponse(i, k)

\* The ledger client answers a pending query.
Answered ==
    \/ ParentResponse
    \/ \E i \in NodeIds : RefreshResponse(i)
    \/ \E i, k \in NodeIds : ResolveResponse(i, k)

\* Every await of the engine is on a ledger query; a query that is pending
\* is answered in the end.
SpecTerminates == Init /\ [][NextTerminates]_vars /\ WF_vars(Answered)

\* ------------------------------------------------------- failing queries
\* The calls that query the ledger are made on objects read from it; the
\* ledger client answers a query or fails it, while the ledger changes.
NextFail ==
    \/ LedgerStoreRoot(1)
    \/ \E p \in NodeIds : LedgerStoreDelegation(p, 1)
    \/ \E i \in NodeIds : LedgerRemove(i)
    \/ \E i \in NodeIds : QueryNode(i)
    \/ CallGetChildren
    \/ \E o \in {"revoke", "findAncestorOwnedBy"}, d \in Accounts :
            CallCascade(o, d)
    \/ \E o \in {"subtreeNodeCount", "remove", "reclaimDeposit"} :
            CallCascade(o, 0)
    \/ ParentResponse
    \/ \E i \in NodeIds : RefreshResponse(i)
    \/ \E i, k \in NodeIds : ResolveResponse(i, k)
    \/ FailParent
    \/ \E i \in NodeIds : FailRefresh(i)
    \/ \E i, k \in NodeIds : FailResolve(i, k)
    \/ \E i \in NodeIds : StragglerRefresh(i)
    \/ \E i, k \in NodeIds : StragglerResolve(i, k)

SpecFail == Init /\ [][NextFail]_vars

\* ----------------------------------------- the parent and the children
NextFetch ==
    \/ \E a \in Accounts : LedgerStoreRoot(a)
    \/ \E p \in NodeIds, a \in Accounts : LedgerStoreDelegation(p, a)
    \/ \E i \in NodeIds : LedgerRemove(i)
    \/ \E i \in NodeIds : QueryNode(i)
    \/ CallGetParent
    \/ GetParentResponse
    \/ CallGetChildren
    \/ \E i \in NodeIds : RefreshResponse(i)
    \/ \E i, k \in NodeIds : ResolveResponse(i, k)

SpecFetch == Init /\ [][NextFetch]_vars

\* ------------------------------------------------- the ledger tree, stated
RECURSIVE Ancestry(_, _)
\* Object n followed by its parent chain on ledger c, as far as it resolves.
Ancestry(c, n) ==
    IF n.parentId = 0 \/ ~c[n.parentId].present THEN <<n>>
    ELSE <<n>> \o Ancestry(c, c[n.parentId])

\* The places of Ancestry(c, n) whose node is owned by d (1 is n itself).
OwnedAt(c, n, d) ==
    {k \in 1..Len(Ancestry(c, n)) : Ancestry(c, n)[k].account = d}

\* Hops from n up to the nearest node owned by d; OwnedAt is not empty.
NearestHops(c, n, d) ==
    (CHOOSE k \in OwnedAt(c, n, d) : \A j \in OwnedAt(c, n, d) : k <= j) - 1

RECURSIVE SubtreeSize(_, _)
\* 0 for a node without children, else their number plus their subtree sizes.
SubtreeSize(c, i) ==
    IF c[i].childrenIds = <<>> THEN 0
    ELSE Len(c[i].childrenIds) +
         SumSeq([k \in 1..Len(c[i].childrenIds) |->
                    SubtreeSize(c, c[i].childrenIds[k])])

CascadeOps == {"revoke", "remove", "reclaimDeposit"}

\* ---------------------------------------------------------------- claims
\* C1: when did owns neither the node nor any node of its parent chain, revoke
\* throws ERROR_UNAUTHORIZED, never starts the count and builds no request.
C1_RevokeUnauthorized ==
    (op = "revoke" /\ stable /\ OwnedAt(chain, self, did) = {}) =>
        /\ pc # "count"
        /\ built = 0
        /\ result.request = NoRequest
        /\ pc = "idle" => result = Thrown("ERROR_UNAUTHORIZED")

C1_Witness ==
    /\ op = "revoke" /\ pc = "idle" /\ stable
    /\ OwnedAt(chain, self, did) = {}
    /\ Len(queries) = 2
    /\ result = Thrown("ERROR_UNAUTHORIZED")

\* C2: an authorized revoke of a ledger node on an unchanged ledger builds
\* exactly one request: the node's id, maxDepth = the steps of
\* findAncestorOwnedBy = the hops to the nearest owned node, maxRevocations =
\* the number of strict descendants.
C2_RevokeRequest ==
    (op = "revoke" /\ pc = "idle" /\ stable /\ chain[self.id].present
        /\ OwnedAt(chain, self, did) # {}) =>
        /\ built = 1
        /\ anc.steps = NearestHops(chain, self, did)
        /\ result = Built(revokeTx(self.id, anc.steps,
                                   Cardinality(Descendants(chain, self.id))))

C2_Witness ==
    /\ op = "revoke" /\ pc = "idle" /\ stable /\ chain[self.id].present
    /\ result.kind = "request"
    /\ result.request.steps = 1
    /\ result.request.count = 1

\* C3: findAncestorOwnedBy returns the nearest owned node of the parent chain
\* and the hops k to it, after exactly k getParent queries (none for k = 0,
\* where the node returned is the receiver).
C3_NearestAncestor ==
    (op = "findAncestorOwnedBy" /\ pc = "idle" /\ stable
        /\ OwnedAt(chain, self, did) # {}) =>
        LET k == NearestHops(chain, self, did)
        IN  /\ anc = [steps |-> k, node |-> Ancestry(chain, self)[k + 1]]
            /\ result = Returned(k)
            /\ Len(queries) = k
            /\ k = 0 => anc.node = self /\ queries = <<>>

C3_Witness ==
    /\ op = "findAncestorOwnedBy" /\ pc = "idle" /\ stable
    /\ OwnedAt(chain, self, did) = {2, 3}
    /\ anc.steps = 1

\* C4: a node returned by findAncestorOwnedBy is owned by did, belongs to the
\* receiver's hierarchy and, on an unchanged ledger, is the receiver or one
\* of its ancestors.
C4_AuthorityOnlyFromAncestors ==
    (op \in {"findAncestorOwnedBy", "revoke"} /\ anc.node.present) =>
        /\ anc.node.account = did
        /\ anc.node.hierarchyId = self.hierarchyId
        /\ stable =>
            /\ \E k \in 1..Len(Ancestry(chain, self)) :
                    Ancestry(chain, self)[k].id = anc.node.id
            /\ anc.node.id \notin Descendants(chain, self.id)

C4_Witness ==
    /\ op = "findAncestorOwnedBy" /\ pc = "idle" /\ stable
    /\ anc.node.present
    /\ anc.node.id # self.id
    /\ Descendants(chain, self.id) # {}

\* C5: on an unchanged ledger subtreeNodeCount of a ledger node returns 0
\* without children and children + the sum of their counts otherwise, which
\* is the number of strict descendants.
C5_SubtreeCount ==
    (op = "subtreeNodeCount" /\ pc = "idle" /\ stable /\ chain[self.id].present) =>
        /\ result = Returned(SubtreeSize(chain, self.id))
        /\ result.value = Cardinality(Descendants(chain, self.id))
        /\ chain[self.id].childrenIds = <<>> => result.value = 0

C5_Witness ==
    /\ op = "subtreeNodeCount" /\ pc = "idle" /\ stable
    /\ chain[self.id].present
    /\ Len(chain[self.id].childrenIds) = 1
    /\ result = Returned(2)

\* C6: store builds the root creation for a root, with or without signature;
\* for a non-root it throws ERROR_DELEGATION_SIGNATURE_MISSING and builds
\* nothing without a signature, and builds the delegation store with that
\* node and that signature otherwise.
C6_Store ==
    (op = "store" /\ pc = "idle") =>
        /\ self.parentId = 0 =>
            result = Built(storeAsRoot(self)) /\ built = 1
        /\ (self.parentId # 0 /\ sig = 0) =>
            result = Thrown("ERROR_DELEGATION_SIGNATURE_MISSING") /\ built = 0
        /\ (self.parentId # 0 /\ sig # 0) =>
            /\ result.kind = "request"
            /\ result.request.call = "storeAsDelegation"
            /\ result.request.node = self
            /\ result.request.signature = sig
            /\ built = 1

C6_Witness ==
    /\ op = "store" /\ pc = "idle"
    /\ self.parentId # 0
    /\ sig # 0
    /\ result.request.call = "storeAsDelegation"

\* C7: remove never walks the ancestry and never throws ERROR_UNAUTHORIZED;
\* the request it builds carries the node's id and the count of its own
\* traversal, the number of strict descendants on an unchanged ledger.
C7_Remove ==
    op = "remove" =>
        /\ pc # "getParent"
        /\ anc = NoAncestor
        /\ \A k \in 1..Len(queries) : queries[k].fn # "getParent"
        /\ result.error # "ERROR_UNAUTHORIZED"
        /\ (pc = "idle" /\ result.kind = "request") =>
            /\ result.request = removeTx(self.id, childCount(tasks, self.id))
            /\ built = 1
        /\ (pc = "idle" /\ stable /\ chain[self.id].present) =>
            result = Built(removeTx(self.id,
                                    Cardinality(Descendants(chain, self.id))))

C7_Witness ==
    /\ op = "remove" /\ pc = "idle" /\ stable
    /\ self.parentId # 0
    /\ result.kind = "request"
    /\ result.request.count = 1

\* C9: a step of revoke, remove or reclaimDeposit, whether the call goes on,
\* returns or throws, leaves the ledger as it is and the object's id,
\* hierarchyId, parentId, account, permissions and revoked flag as they are.
C9_NoLocalEffects ==
    [][(op' \in CascadeOps /\ Eng' # Eng) =>
            /\ chain' = chain
            /\ nextId' = nextId
            /\ Identity(self') = Identity(self)]_vars

C9_Witness ==
    /\ op = "revoke" /\ pc = "idle"
    /\ result.kind = "request"
    /\ result.request.count = 1
    /\ chain[self.id].present
    /\ ~chain[self.id].revoked
    /\ \A k \in Descendants(chain, self.id) : ~chain[k].revoked

\* C10: the bound of a cascade request is the count of a traversal of this
\* call: it starts with the re-query of the receiver, after the last getParent
\* query of revoke's authority walk, nothing is built while it runs, and the
\* request carries its result, not the childrenIds cached before the call.
C10_FreshCount ==
    /\ (op \in CascadeOps /\ pc = "count") =>
            /\ built = 0
            /\ result = NoResult
            /\ op = "revoke" => anc.node.present
    /\ (op \in CascadeOps /\ pc = "idle" /\ result.kind = "request") =>
            /\ \E k \in 1..Len(queries) : queries[k] = Query("getChildren", self.id)
            /\ \A j, k \in 1..Len(queries) :
                    (queries[j].fn = "getParent" /\ queries[k].fn # "getParent")
                        => j < k
            /\ Settled(tasks, self.id)
            /\ tasks[self.id].kids = self.childrenIds
            /\ result.request.count = childCount(tasks, self.id)
            /\ (stable /\ chain[self.id].present) =>
                    result.request.count = Cardinality(Descendants(chain, self.id))

C10_Witness ==
    /\ op = "revoke" /\ pc = "idle" /\ stable
    /\ result.kind = "request"
    /\ result.request.steps = 1
    /\ result.request.count = 1
    /\ Len(queries) = 4

\* C8: called on the same object and given the same answers, reclaimDeposit
\* issues the queries of remove, in the same order, is suspended and returns
\* where remove does, and builds a request with the same id and the same
\* bound: the two results differ in the kind of request only.
C8_ReclaimLikeRemove ==
    (op = "remove" /\ twin.op = "reclaimDeposit") =>
        /\ twin.queries = queries
        /\ twin.pc = pc
        /\ twin.self = self
        /\ pc = "idle" =>
            /\ twin.result.kind = result.kind
            /\ twin.result.error = result.error
            /\ result.kind = "request" =>
                /\ result.request.call = "remove"
                /\ twin.result.request.call = "reclaimDeposit"
                /\ twin.result.request.id = result.request.id
                /\ twin.result.request.count = result.request.count
                /\ twin.result.request =
                        [result.request EXCEPT !.call = "reclaimDeposit"]

C8_Witness ==
    /\ op = "remove" /\ twin.op = "reclaimDeposit"
    /\ pc = "idle" /\ stable
    /\ Len(queries) = 5
    /\ twin.result.request = reclaimDepositTx(self.id, 2)

\* C11: once getHierarchyDetails has succeeded on an object, the object keeps
\* those details and every later call returns them without a query; an
\* object built by newRoot holds {id, cTypeHash as given} from the start and
\* never issues a hierarchy query.
C11_DetailsCached ==
    /\ seen.details.present => hierarchyDetails = seen.details
    /\ (op = "getHierarchyDetails" /\ before.hierarchyDetails.present) =>
            /\ pc = "idle"
            /\ queries = <<>>
            /\ result = ReturnedDetails(before.hierarchyDetails)
    /\ born.by = "newRoot" =>
            /\ hierarchyDetails =
                    [present |-> TRUE, id |-> self.id,
                     cTypeHash |-> born.cTypeHash]
            /\ pc # "queryDetails"
            /\ \A k \in 1..Len(queries) :
                    queries[k].fn # "getHierarchyDetails"

C11_Witness ==
    /\ op = "getHierarchyDetails" /\ pc = "idle"
    /\ born.by = "query"
    /\ self.parentId # 0
    /\ before.hierarchyDetails.present
    /\ result = ReturnedDetails(seen.details)
    /\ ~hierarchies[self.hierarchyId].present

\* C12: when the ledger has no hierarchy for hierarchyId, getHierarchyDetails
\* throws ERROR_HIERARCHY_QUERY and the cache stays unset; a call on an
\* object without cached details always asks the ledger, and returns and
\* caches the hierarchy when the ledger has it, also after a failure.
C12_HierarchyQueryFailed ==
    (op = "getHierarchyDetails" /\ ~before.hierarchyDetails.present) =>
        /\ queries = <<Query("getHierarchyDetails", self.hierarchyId)>>
        /\ (pc = "idle" /\ stable) =>
            IF hierarchies[self.hierarchyId].present
            THEN /\ result = ReturnedDetails(hierarchies[self.hierarchyId])
                 /\ hierarchyDetails = hierarchies[self.hierarchyId]
            ELSE /\ result = Thrown("ERROR_HIERARCHY_QUERY")
                 /\ hierarchyDetails = NoDetails
                 /\ seen.failed

C12_Witness ==
    /\ op = "getHierarchyDetails" /\ pc = "idle"
    /\ seen.failed
    /\ result.kind = "details"
    /\ hierarchyDetails = hierarchies[self.hierarchyId]

\* C13: getParent returns null at once and without a query when the object
\* has no parentId; otherwise it issues exactly one query, of parentId, and
\* returns what the ledger answers, a null answer as null and never as an
\* error.
C13_GetParent ==
    op = "getParent" =>
        /\ self.parentId = 0 =>
            /\ pc = "idle"
            /\ queries = <<>>
            /\ result = ReturnedNode(NullNode)
        /\ self.parentId # 0 =>
            /\ queries = <<Query("getParent", self.parentId)>>
            /\ pc = "idle" => result.kind = "node"
            /\ (pc = "idle" /\ stable) =>
                    result = ReturnedNode(chain[self.parentId])

C13_Witness ==
    /\ op = "getParent" /\ pc = "idle"
    /\ self.parentId # 0
    /\ result = ReturnedNode(NullNode)

C15_NewRootNewNode ==
    /\ op = "newRoot" =>
        /\ result = ReturnedNode(self)
        /\ self.present
        /\ self.id = self.hierarchyId
        /\ self.id = nextId - 1
        /\ self.parentId = 0
        /\ ~self.revoked
        /\ self.childrenIds = <<>>
        /\ self.account = born.given.account
        /\ self.permissions = born.given.permissions
        /\ hierarchyDetails =
                [present |-> TRUE, id |-> self.id, cTypeHash |-> born.cTypeHash]
    /\ (op = "newNode" /\ result.kind = "node") =>
        /\ result = ReturnedNode(self)
        /\ self.present
        /\ self.id = nextId - 1
        /\ self.hierarchyId = born.given.hierarchyId
        /\ self.parentId = born.given.parentId
        /\ self.parentId # 0
        /\ ~self.revoked
        /\ self.childrenIds = <<>>
        /\ self.account = born.given.account
        /\ self.permissions = born.given.permissions
        /\ hierarchyDetails = NoDetails

C15_Witness ==
    /\ op = "newNode"
    /\ result.kind = "node"
    /\ self.id = 2
    /\ self.hierarchyId = 1
    /\ self.parentId = 1
    /\ self.permissions = {"ATTEST"}

\* C16: the constructor throws InvalidNode exactly for the inputs with
\* id # hierarchyId and no parentId, or id = hierarchyId and a parentId, and
\* makes the object with the fields of the input otherwise; every object
\* held has id = hierarchyId exactly when it has no parentId, and isRoot is
\* true of exactly these objects.
C16_InvalidNode ==
    /\ op = "constructor" =>
        IF (born.given.id = born.given.hierarchyId)
                <=> (born.given.parentId = 0)
        THEN /\ result = ReturnedNode(self)
             /\ self.present
             /\ Identity(self) = born.given
        ELSE /\ result = Thrown("InvalidNode")
             /\ ~self.present
    /\ self.present =>
        /\ (self.id = self.hierarchyId) <=> (self.parentId = 0)
        /\ isRoot(self) <=> (self.id = self.hierarchyId)
        /\ isRoot(self) <=> (self.parentId = 0)
    /\ op = "isRoot" =>
        /\ result = ReturnedFlag(self.parentId = 0)
        /\ result = ReturnedFlag(self.id = self.hierarchyId)

C16_Witness ==
    /\ op = "constructor"
    /\ born.given.id # born.given.hierarchyId
    /\ born.given.parentId = 0
    /\ result = Thrown("InvalidNode")

\* The node objects that agree with n in everything but id, hierarchyId,
\* parentId and permissions.
Alike(n) ==
    {[n EXCEPT !.id = i, !.hierarchyId = h, !.parentId = p,
               !.permissions = perms] :
        i \in NodeIds, h \in NodeIds, p \in 0..MaxNodes,
        perms \in PermissionSets}

\* C17: generateHash issues no query and changes neither the object nor its
\* caches; what it returns is fixed by id, hierarchyId, parentId and
\* permissions, the same at every call on the object whatever was called in
\* between, and different for two objects that differ in permissions or in
\* parentId, present or absent.
C17_GenerateHash ==
    op = "generateHash" =>
        /\ pc = "idle"
        /\ queries = <<>>
        /\ built = 0
        /\ Identity(self) = born.node
        /\ Caches(self, hierarchyDetails) = before
        /\ result = ReturnedHash(seen.hash)
        /\ result.hash =
                generateHash([NullNode EXCEPT !.id = self.id,
                                              !.hierarchyId = self.hierarchyId,
                                              !.parentId = self.parentId,
                                              !.permissions = self.permissions])
        /\ \A m \in Alike(self) :
                (m.permissions # self.permissions \/ m.parentId # self.parentId)
                    => generateHash(m) # result.hash

C17_Witness ==
    /\ op = "generateHash"
    /\ seen.hashed = 3
    /\ born.by = "query"
    /\ hierarchyDetails.present
    /\ self.childrenIds # <<>>
    /\ result.hash = seen.hash

\* C18: the revoked flag of an object, like its other readonly fields, is
\* what it was when the caller got the object, whatever was called on it and
\* whatever the ledger did; getLatestState returns the object query made of
\* the ledger's record (or throws when there is none) and leaves the
\* receiver and its caches as they were.
C18_RevokedKept ==
    /\ self.present => Identity(self) = born.node
    /\ (op = "getLatestState" /\ pc = "idle") =>
            /\ result = IF chain[self.id].present
                        THEN ReturnedNode(chain[self.id])
                        ELSE Thrown("ERROR_DELEGATION_ID_MISSING")
            /\ queries = <<Query("getLatestState", self.id)>>
            /\ built = 0
            /\ Caches(self, hierarchyDetails) = before

C18_Witness ==
    /\ op = "getLatestState" /\ pc = "idle"
    /\ born.by = "constructor"
    /\ self.revoked
    /\ result.kind = "node"
    /\ ~result.node.revoked

\* C19: verify returns true exactly when the ledger holds the node, not
\* revoked, when the query is answered, whatever the object's own revoked
\* flag says; on a ledger that stores a node once, revokes it for good and
\* removes it for good, a verify that returned true and then false never
\* returns true again; and no step of the caller or the engine changes the
\* ledger.
C19_VerifyLifecycle ==
    /\ [](/\ (op = "verify" /\ pc = "idle") =>
                /\ result = ReturnedFlag(chain[self.id].present
                                            /\ ~chain[self.id].revoked)
                /\ queries = <<Query("verify", self.id)>>
                /\ built = 0
          /\ seen.verify # "again")
    /\ [][(pc' # pc \/ (op' # op /\ op' # "none")) =>
                /\ chain' = chain
                /\ hierarchies' = hierarchies]_vars

C19_Witness ==
    /\ op = "verify" /\ pc = "idle"
    /\ born.by = "newRoot"
    /\ seen.stored
    /\ seen.verify = "ended"
    /\ result = ReturnedFlag(FALSE)
    /\ chain[self.id].present
    /\ chain[self.id].revoked
    /\ ~self.revoked

\* The calls that suspend on ledger queries and work on the children.
Suspending ==
    {"getChildren", "subtreeNodeCount", "getHierarchyDetails", "revoke",
     "remove", "reclaimDeposit"}

Querying ==
    {"findAncestorOwnedBy", "getChildren", "subtreeNodeCount", "revoke",
     "remove", "reclaimDeposit"}

\* C21: once a query of findAncestorOwnedBy, getChildren, subtreeNodeCount,
\* revoke, remove or reclaimDeposit was failed by the ledger client, the call
\* has thrown QueryFailed, the query log holds the failed query once, also
\* after the invocations that were running side by side have gone on, and
\* no request was built.
C21_QueryFailed ==
    (op \in Querying /\ seen.rejected # NoQuery) =>
        /\ pc = "idle"
        /\ result = Thrown("QueryFailed")
        /\ built = 0
        /\ Cardinality({n \in DOMAIN queries : queries[n] = seen.rejected}) = 1

C21_Witness ==
    /\ op = "revoke"
    /\ seen.rejected = Query("getChildren", 2)
    /\ result = Thrown("QueryFailed")
    /\ anc.node.present
    /\ tasks[3].st = "leaf"
    /\ Len(queries) > 4

\* The invocations of subtreeNodeCount on node i within the call: each one
\* starts with the query(this.id) of its getChildren.
Invocations(i) ==
    Cardinality({n \in DOMAIN queries : queries[n] = Query("getChildren", i)})

\* C22: within one subtreeNodeCount, revoke, remove or reclaimDeposit call
\* subtreeNodeCount is invoked at most once on every node id, in whatever
\* order the children's invocations are answered and whatever the ledger
\* does meanwhile; when the call returns, the invocations are the receiver's
\* and one for every node counted.
C22_VisitedOnce ==
    op \in {"subtreeNodeCount"} \cup CascadeOps =>
        /\ \A i \in NodeIds : Invocations(i) <= 1
        /\ (pc = "idle" /\ result.kind \in {"value", "request"}) =>
                SumSeq([i \in NodeIds |-> Invocations(i)])
                    = 1 + childCount(tasks, self.id)

C22_Witness ==
    /\ op = "subtreeNodeCount" /\ pc = "idle"
    /\ result = Returned(2)
    /\ self.childrenIds = <<2, 3>>
    /\ Invocations(1) = 1 /\ Invocations(2) = 1 /\ Invocations(3) = 1
    /\ tasks[2].st = "leaf" /\ tasks[3].st = "leaf"

\* C23: getLatestState issues one query(this.id) and never a second one;
\* it throws ERROR_DELEGATION_ID_MISSING exactly when the ledger holds no
\* record of the id at the answer, and returns the ledger's record as an
\* object of its own otherwise; the receiver's fields and caches stay.
C23_LatestState ==
    op = "getLatestState" =>
        /\ queries = <<Query("getLatestState", self.id)>>
        /\ pc \in {"latest", "idle"}
        /\ pc = "latest" => result = NoResult
        /\ pc = "idle" =>
            /\ result.kind \in {"error", "node"}
            /\ result.kind = "error" <=> ~chain[self.id].present
            /\ result.kind = "error" =>
                    result = Thrown("ERROR_DELEGATION_ID_MISSING")
            /\ result.kind = "node" =>
                    /\ result.node = chain[self.id]
                    /\ result.node.id = self.id
        /\ Identity(self) = born.node
        /\ Caches(self, hierarchyDetails) = before

C23_Witness ==
    /\ op = "getLatestState" /\ pc = "idle"
    /\ self.present
    /\ born.by = "query"
    /\ ~chain[self.id].present
    /\ result = Thrown("ERROR_DELEGATION_ID_MISSING")

\* The ledger holds R = 1 of A, C1 = 2 of B below R and C2 = 3 of D below C1.
ThreeStored ==
    /\ chain[1].present /\ chain[1].account = Owners.A
    /\ chain[1].parentId = 0 /\ chain[1].childrenIds = <<2>>
    /\ chain[2].present /\ chain[2].account = Owners.B
    /\ chain[2].parentId = 1 /\ chain[2].childrenIds = <<3>>
    /\ chain[3].present /\ chain[3].account = Owners.D
    /\ chain[3].parentId = 2 /\ chain[3].childrenIds = <<>>

\* C24: with R of A, C1 of B below R and C2 of D below C1 on a ledger that
\* does not change during the call, subtreeNodeCount on R returns 2,
\* findAncestorOwnedBy(A) on C2 returns steps 2 and node R, and revoke(B) on
\* C2 builds the revoke request of C2 with maxDepth 1 and maxRevocations 0.
C24_Three ==
    (ThreeStored /\ stable /\ pc = "idle") =>
        /\ (op = "subtreeNodeCount" /\ self.id = 1) => result = Returned(2)
        /\ (op = "findAncestorOwnedBy" /\ self.id = 3 /\ did = Owners.A) =>
                /\ result = Returned(2)
                /\ anc = [steps |-> 2, node |-> chain[1]]
        /\ (op = "revoke" /\ self.id = 3 /\ did = Owners.B) =>
                /\ result = Built(revokeTx(3, 1, 0))
                /\ result.request.steps = 1
                /\ result.request.count = 0
                /\ anc.node = chain[2]
                /\ built = 1

C24_Witness ==
    /\ ThreeStored /\ stable /\ pc = "idle"
    /\ op = "revoke" /\ self.id = 3 /\ did = Owners.B
    /\ result.kind = "request"
    /\ result.request.steps = 1
    /\ result.request.count = 0

\* The positions of the query log that hold getParent queries.
AncestorQueries == {n \in DOMAIN queries : queries[n].fn = "getParent"}

\* C25: in revoke every getParent query precedes every query of the count;
\* no query of the count is issued while the walk is suspended or when it
\* returned no node, in which case revoke has thrown ERROR_UNAUTHORIZED.
C25_WalkFirst ==
    op = "revoke" =>
        /\ \A m \in AncestorQueries, n \in DOMAIN queries \ AncestorQueries :
                m < n
        /\ pc = "getParent" => AncestorQueries = DOMAIN queries
        /\ AncestorQueries # DOMAIN queries => anc.node.present
        /\ (pc = "idle" /\ ~anc.node.present) =>
                /\ result = Thrown("ERROR_UNAUTHORIZED")
                /\ AncestorQueries = DOMAIN queries
                /\ tasks = NoTasks
                /\ built = 0

C25_Witness ==
    /\ op = "revoke" /\ pc = "idle"
    /\ result.kind = "request"
    /\ Cardinality(AncestorQueries) = 1
    /\ Len(queries) = 4
    /\ queries[1].fn = "getParent"

\* C26: when findAncestorOwnedBy, called directly or by revoke, returns no
\* node, its steps are the number of parents the walk resolved: every
\* getParent query but a last one answered null. On a ledger unchanged since
\* the call started no node of the resolvable parent chain is owned by did
\* and steps is the number of ancestors on it, 0 only for an object without
\* a resolvable parent.
C26_StepsWithoutNode ==
    (op \in {"findAncestorOwnedBy", "revoke"} /\ pc = "idle"
        /\ ~anc.node.present) =>
        /\ anc.steps \in {Len(queries) - 1, Len(queries)}
        /\ anc.steps >= 0
        /\ AncestorQueries = DOMAIN queries
        /\ op = "findAncestorOwnedBy" => result = Returned(anc.steps)
        /\ stable =>
            /\ OwnedAt(chain, self, did) = {}
            /\ anc.steps = Len(Ancestry(chain, self)) - 1
            /\ anc.steps = 0 <=>
                    (self.parentId = 0 \/ ~chain[self.parentId].present)

C26_Witness ==
    /\ op = "findAncestorOwnedBy" /\ pc = "idle"
    /\ stable
    /\ ~anc.node.present
    /\ anc.steps = 2
    /\ result = Returned(2)
    /\ Len(Ancestry(chain, self)) = 3

\* The last node of the resolvable parent chain of the object held.
TopOfChain == Ancestry(chain, self)[Len(Ancestry(chain, self))]

\* C27: when the parent chain of the object ends at a node whose parentId
\* the ledger does not return, and did owns no node up to there, then on a
\* ledger unchanged since the call started findAncestorOwnedBy returns no
\* node, with the steps up to that node, and revoke throws
\* ERROR_UNAUTHORIZED and builds nothing: the missing record is no error.
C27_MissingParent ==
    (op \in {"findAncestorOwnedBy", "revoke"} /\ pc = "idle" /\ stable
        /\ TopOfChain.parentId # 0
        /\ OwnedAt(chain, self, did) = {}) =>
        /\ ~anc.node.present
        /\ anc.steps = Len(Ancestry(chain, self)) - 1
        /\ queries[Len(queries)] = Query("getParent", TopOfChain.parentId)
        /\ built = 0
        /\ IF op = "revoke"
           THEN result = Thrown("ERROR_UNAUTHORIZED")
           ELSE result = Returned(anc.steps)

C27_Witness ==
    /\ op = "revoke" /\ pc = "idle" /\ stable
    /\ self.parentId # 0
    /\ ~chain[self.parentId].present
    /\ \E i \in NodeIds : chain[i].present /\ chain[i].account = did
    /\ self.account # did
    /\ result = Thrown("ERROR_UNAUTHORIZED")

\* getChildren, subtreeNodeCount, remove or reclaimDeposit runs on an object
\* of which the ledger has held no record since the call started, and the
\* re-query of the object has been answered.
RequeryNull ==
    /\ op \in {"getChildren", "subtreeNodeCount", "remove", "reclaimDeposit"}
    /\ self.present
    /\ stable
    /\ ~chain[self.id].present
    /\ tasks[self.id].st \notin {"none", "refresh"}

\* The bound counted from the cached children of the object on the ledger.
CachedBound ==
    Len(before.childrenIds) +
    SumSeq([k \in 1..Len(before.childrenIds) |->
                SubtreeSize(chain, before.childrenIds[k])])

\* C28 as stated: after a null answer to the re-query the cached childrenIds
\* are kept and resolved, and the call ends without an error, with the
\* children or the bound of the cached list.
C28_NeverVanished ==
    RequeryNull =>
        /\ self.childrenIds = before.childrenIds
        /\ tasks[self.id].kids = before.childrenIds
        /\ pc = "idle" => result.kind # "error"

\* C28: after a null answer to the re-query no error is raised for it, the
\* cached childrenIds are kept and one query per cached id follows; when
\* every cached child is on the ledger getChildren returns their objects and
\* subtreeNodeCount, remove and reclaimDeposit take their bound from the
\* cached children; when a cached child is not on the ledger the call throws
\* ERROR_DELEGATION_ID_MISSING and builds nothing.
C28_CachedChildren ==
    RequeryNull =>
        /\ self.childrenIds = before.childrenIds
        /\ tasks[self.id].kids = before.childrenIds
        /\ SubSeq(queries, 1, 1 + Len(before.childrenIds))
                = <<Query("getChildren", self.id)>>
                    \o ChildQueries(before.childrenIds)
        /\ pc = "idle" =>
            IF \A k \in Range(before.childrenIds) : chain[k].present
            THEN result =
                    CASE op = "getChildren" ->
                            ReturnedNodes([k \in 1..Len(before.childrenIds) |->
                                            chain[before.childrenIds[k]]])
                      [] op = "subtreeNodeCount" -> Returned(CachedBound)
                      [] op = "remove" -> Built(removeTx(self.id, CachedBound))
                      [] op = "reclaimDeposit" ->
                            Built(reclaimDepositTx(self.id, CachedBound))
            ELSE /\ result = Thrown("ERROR_DELEGATION_ID_MISSING")
                 /\ built = 0

C28_Witness ==
    /\ RequeryNull
    /\ op = "remove" /\ pc = "idle"
    /\ born.by = "constructor"
    /\ before.childrenIds # <<>>
    /\ result.kind = "request"
    /\ result.request.count = 2

\* C29 as stated: on an object that is no root the getHierarchyDetails
\* calls that have not failed, overlapping or not, have issued one hierarchy
\* query at most between them, and those that returned details returned the
\* same.
C29_SingleQuery ==
    (self.present /\ ~isRoot(self) /\ ~seen.failed) =>
        /\ seen.asked # "more"
        /\ (op = "getHierarchyDetails" /\ result.kind = "details") =>
                result.details = seen.details
        /\ (twin.op = "getHierarchyDetails" /\ twin.result.kind = "details")
                => twin.result.details = seen.details

\* C29: every getHierarchyDetails call issues one hierarchyId query when it
\* starts without cached details, and none otherwise; calls that follow a
\* successful call issue none, so that more than one query in total is
\* issued only by calls that overlap an unanswered call or follow a failed
\* one; all calls that return details return the same details.
C29_QueryPerUncachedCall ==
    (self.present /\ ~isRoot(self)) =>
        /\ op = "getHierarchyDetails" =>
            /\ queries = IF before.hierarchyDetails.present THEN <<>>
                         ELSE <<Query("getHierarchyDetails", self.hierarchyId)>>
            /\ result.kind = "details" => result.details = seen.details
        /\ twin.op = "getHierarchyDetails" =>
            /\ Len(twin.queries) <= 1
            /\ \A k \in DOMAIN twin.queries :
                    twin.queries[k]
                        = Query("getHierarchyDetails", self.hierarchyId)
            /\ twin.result.kind = "details" =>
                    twin.result.details = seen.details
        /\ seen.asked = "more" => seen.overlapped \/ seen.failed
        /\ seen.details.present =>
            /\ hierarchyDetails = seen.details
            /\ seen.details.id = self.hierarchyId

C29_Witness ==
    /\ self.present /\ ~isRoot(self)
    /\ seen.overlapped /\ ~seen.failed
    /\ seen.asked = "more"
    /\ op = "getHierarchyDetails" /\ pc = "idle"
    /\ twin.op = "getHierarchyDetails" /\ twin.pc = "idle"
    /\ Len(queries) = 1 /\ Len(twin.queries) = 1
    /\ result = ReturnedDetails(seen.details)
    /\ twin.result = result

\* The nodes a count has taken in: those whose record a child query of the
\* call returned.
Counted == {k \in NodeIds \ {self.id} : tasks[k].st # "none"}

\* The bound a finished count has returned or put into its request.
Bound ==
    IF result.kind = "request" THEN result.request.count ELSE result.value

Counting == {"subtreeNodeCount", "revoke", "remove"}

TreeInvariant ==
    \A i \in NodeIds : chain[i].present =>
        /\ chain[i].parentId < i
        /\ chain[i].parentId # 0 =>
            /\ chain[chain[i].parentId].present
            /\ Cardinality({n \in DOMAIN chain[chain[i].parentId].childrenIds :
                    chain[chain[i].parentId].childrenIds[n] = i}) = 1
        /\ \A k \in Range(chain[i].childrenIds) :
                chain[k].present /\ chain[k].parentId = i

Traversals ==
    {"findAncestorOwnedBy", "subtreeNodeCount", "revoke", "remove",
     "reclaimDeposit"}

\* C31: the ledger is a tree in every state, and with every pending query
\* answered in the end a findAncestorOwnedBy, subtreeNodeCount, revoke,
\* remove or reclaimDeposit call that is suspended returns a result or
\* throws; the walk and the count carry no bound of their own: a finished
\* walk has climbed one step per parent query that returned a record.
C31_Terminates ==
    /\ []TreeInvariant
    /\ (op \in Traversals /\ pc # "idle") ~> (op \in Traversals /\ pc = "idle")
    /\ []((op = "findAncestorOwnedBy" /\ pc = "idle" /\ self.present) =>
            /\ result.kind \in {"value", "error"}
            /\ result.kind = "value" =>
                    /\ result.value <= Len(queries)
                    /\ Len(queries) <= result.value + 1
                    /\ (stable /\ chain[self.id].present) =>
                            Len(queries) = result.value)

\* A walk over the longest chain the ledger can hold has returned.
C31_Witness ==
    /\ op = "findAncestorOwnedBy" /\ pc = "idle"
    /\ result.kind = "value"
    /\ Len(queries) = MaxNodes - 1
    /\ self.id = MaxNodes

====
